---- MODULE Spec2Model ----
(***************************************************************************)
(* Geospatial incident location resolver of koruanalytics-site:            *)
(*   - GeocodingService (src/src/enrichment/geocoding_service.py)          *)
(*   - AzureMapsGeocoder (src/src/enrichment/azure_maps_geocoder.py)       *)
(*   - candidate generation, primary resolution and the incident-place     *)
(*     fact table (src/scripts/run_location_candidates.py,                 *)
(*     run_geo_resolve_incidents.py, build_fct_incident_places.py)         *)
(*                                                                         *)
(* Text is a sequence of one-character strings, so that lower(), strip()   *)
(* and the normalisation of candidate text are computed, not assumed.      *)
(* A float is a tagged record, so that None, NaN and 0.0 stay distinct.    *)
(***************************************************************************)
EXTENDS Integers, Sequences, FiniteSets, Bags, TLC

VARIABLES
  gazetteer,            \* GeocodingService.gazetteer (rows of the loaded CSV)
  AZURE_MAPS_AVAILABLE, \* geocoding_service.AZURE_MAPS_AVAILABLE
  AZURE_MAPS_KEY,       \* azure_maps_geocoder.AZURE_MAPS_KEY (TRUE: configured)
  azure_geocoder,       \* azure_maps_geocoder._azure_geocoder (the singleton)
  incident,             \* the upstream incident record being resolved
  resolved,             \* what the last geocode_incident / geocode_batch call returned
  workload,             \* the lookups a long-lived client is asked for (see SpecCache)
  fresh,                \* number of distinct other addresses looked up so far
  last_lookup,          \* the last completed lookup of the repeated address
  cli,                  \* --top-k and --use-body given to run_location_candidates
  stg_incidents_extracted,       \* table (one row per incident of a run)
  stg_incident_place_candidates, \* table (bag of rows)
  map_incident_place,            \* table (bag of rows)
  fct_incident_places,           \* table (bag of rows)
  last,                 \* the pipeline step run last and what its table held before
  done,                 \* the (step, run_id) pairs run so far
  scoring,              \* two score_candidate calls that differ in the n-gram only
  fct_incidents,                \* table (one row per incident of a run)
  curation_incident_overrides,  \* table keyed by incident_id
  fct_incidents_curated,        \* table (one row per incident of a run)
  returned,                     \* the exit status of the last curation script
  dq_run_metrics,       \* table keyed by (ingest_run_id, metric_name)
  outputs,              \* outputs/ambiguous_<run>.csv and run_report_<run>.md
  now,                  \* time.time(), in milliseconds
  last_request_time,    \* AzureMapsGeocoder.last_request_time, in milliseconds
  worker,               \* where each worker thread is inside geocode_address
  request_starts,       \* the requests sent to the API so far: who, and when
  singleton,            \* azure_maps_geocoder._azure_geocoder as threads see it: 0 is None
  clients,              \* number of AzureMapsGeocoder objects constructed
  lru,                  \* the keys held by the lru_cache of geocode_address
  thread,               \* where each thread is inside geocode_address_azure
  api_calls,            \* the calls that went past the cache to the API
  running,              \* the invocation of run_location_candidates under way
  dim_rows,             \* the rows of dim_places_pe as a SELECT returns them
  place_index           \* what build_place_index made of them

geoVars == <<gazetteer, AZURE_MAPS_AVAILABLE, AZURE_MAPS_KEY, azure_geocoder,
             incident, resolved>>
cacheVars == <<workload, fresh, last_lookup>>
placeVars == <<cli, stg_incidents_extracted, stg_incident_place_candidates,
               map_incident_place, fct_incident_places, last, done>>
scoreVars == <<scoring>>
curationVars == <<fct_incidents, curation_incident_overrides, fct_incidents_curated, returned>>
qualityVars == <<dq_run_metrics, outputs>>
rateVars == <<now, last_request_time, worker, request_starts>>
singletonVars == <<singleton, clients, lru, thread, api_calls>>
indexVars == <<dim_rows, place_index>>
otherVars == <<scoreVars, curationVars, qualityVars, rateVars, singletonVars, running,
               indexVars>>
vars == <<geoVars, cacheVars, placeVars, otherVars>>

(***************************************************************************)
(* Python values                                                           *)
(***************************************************************************)
\* None where a str is expected
None == <<"<None>">>
\* float('nan') where a str is expected: the missing value of a pandas text column
NaNText == <<"<nan>">>
\* Optional[float]: None, nan, or a number (degrees)
FNone == [tag |-> "none", val |-> 0]
FNaN == [tag |-> "nan", val |-> 0]
Num(n) == [tag |-> "num", val |-> n]

\* bool(x) of an Optional[float]: None and 0.0 are falsy, nan is truthy
Truthy(x) == x.tag = "nan" \/ (x.tag = "num" /\ x.val # 0)
\* pandas isna(): None and nan are both missing
IsNull(x) == x.tag \in {"none", "nan"}
\* `not text` of an Optional[str]
NotText(text) == text = None \/ text = <<>>

UpperLetters == <<"A","B","C","D","E","F","G","H","I","J","K","L","M","N","O","P",
                  "Q","R","S","T","U","V","W","X","Y","Z","Á","É","Í","Ó","Ú","Ñ">>
LowerLetters == <<"a","b","c","d","e","f","g","h","i","j","k","l","m","n","o","p",
                  "q","r","s","t","u","v","w","x","y","z","á","é","í","ó","ú","ñ">>

ToLower ==
  [c \in {UpperLetters[i] : i \in 1..Len(UpperLetters)} |->
     LowerLetters[CHOOSE i \in 1..Len(UpperLetters) : UpperLetters[i] = c]]

\* str.lower(), one character
LowerChar(c) == IF c \in DOMAIN ToLower THEN ToLower[c] ELSE c

\* str.lower()
lower(s) == [i \in 1..Len(s) |-> LowerChar(s[i])]

IsSpace(c) == c \in {" ", "\t", "\n"}

RECURSIVE lstrip(_)
lstrip(s) == IF s # <<>> /\ IsSpace(Head(s)) THEN lstrip(Tail(s)) ELSE s

RECURSIVE rstrip(_)
rstrip(s) ==
  IF s # <<>> /\ IsSpace(s[Len(s)]) THEN rstrip(SubSeq(s, 1, Len(s) - 1)) ELSE s

\* str.strip()
strip(s) == rstrip(lstrip(s))

(***************************************************************************)
(* Texts and coordinates the model draws its inputs from                   *)
(***************************************************************************)
sLIMA == <<"L","I","M","A">>
sLima == <<" ","L","i","m","a">>
sICA == <<"I","C","A">>
sATE == <<"A","T","E">>
sAte == <<"A","t","e">>
sAteSp == <<"a","t","e"," ">>
sGam == <<"G","a","m">>

\* positions the external API answers with (inside Peru: countrySet=PE)
ApiP1 == [lat |-> Num(-12), lon |-> Num(-77)]
ApiP2 == [lat |-> Num(-13), lon |-> Num(-72)]

(***************************************************************************)
(* AzureMapsGeocoder (src/src/enrichment/azure_maps_geocoder.py)           *)
(***************************************************************************)
AZURE_MAPS_MAX_RETRIES == 2
\* maxsize of the lru_cache that wraps geocode_address
LRU_MAXSIZE == 500

\* what one requests.get of the retry loop can end in
Timeout == [kind |-> "timeout", lat |-> FNone, lon |-> FNone]
Http429 == [kind |-> "http429", lat |-> FNone, lon |-> FNone]
HttpError == [kind |-> "httperror", lat |-> FNone, lon |-> FNone]
OtherError == [kind |-> "error", lat |-> FNone, lon |-> FNone]
NoResults == [kind |-> "empty", lat |-> FNone, lon |-> FNone]
Ok(p) == [kind |-> "ok", lat |-> p.lat, lon |-> p.lon]
\* a results array whose first entry has no position
OkNoPosition == Ok([lat |-> FNone, lon |-> FNone])

Responses == {Timeout, Http429, HttpError, OtherError, NoResults, OkNoPosition,
              Ok(ApiP1), Ok(ApiP2)}
\* the responses after which the retry loop issues another request
Retryable == {Timeout, Http429}
\* the answers the API gives to the requests of one geocode_address call: every
\* answer but the last asks for a retry, and only the last permitted attempt may
\* end in one that does
ResponseScripts ==
  { s \in UNION { [1..n -> Responses] : n \in 1..(AZURE_MAPS_MAX_RETRIES + 1) } :
      /\ \A i \in 1..(Len(s) - 1) : s[i] \in Retryable
      /\ Len(s) <= AZURE_MAPS_MAX_RETRIES => s[Len(s)] \notin Retryable }

\* geocode_address returns None
NoGeocode == [lat |-> FNone, lon |-> FNone, nivel |-> "None"]

\* AzureMapsGeocoder.__init__; before get_azure_geocoder ran there is no instance
NoGeocoder == [created |-> FALSE, api_key |-> FALSE, request_count |-> 0, cache |-> <<>>]
AzureMapsGeocoder(key) ==
  [created |-> TRUE, api_key |-> key, request_count |-> 0, cache |-> <<>>]

\* get_azure_geocoder: create the singleton on first use
get_azure_geocoder(gc, key) == IF gc.created THEN gc ELSE AzureMapsGeocoder(key)

\* a retry loop that gives up one attempt early
RECURSIVE retry_loop_one_retry(_, _)
retry_loop_one_retry(script, attempt) ==
  IF attempt > AZURE_MAPS_MAX_RETRIES
  THEN [result |-> NoGeocode, used |-> attempt, counted |-> 0]
  ELSE LET r == script[attempt + 1]
           stop(res, n) == [result |-> res, used |-> attempt + 1, counted |-> n]
       IN CASE r.kind = "ok" ->
                 IF Truthy(r.lat) /\ Truthy(r.lon)
                 THEN stop([lat |-> r.lat, lon |-> r.lon, nivel |-> "azure_maps"], 1)
                 ELSE stop(NoGeocode, 1)
            [] r.kind = "empty" -> stop(NoGeocode, 1)
            [] r.kind \in {"timeout", "http429"} ->
                 IF attempt < AZURE_MAPS_MAX_RETRIES - 1
                 THEN retry_loop_one_retry(script, attempt + 1)
                 ELSE stop(NoGeocode, 0)
            [] OTHER -> stop(NoGeocode, 0)

\* a retry loop that allows one attempt more
RECURSIVE retry_loop_extra_attempt(_, _)
retry_loop_extra_attempt(script, attempt) ==
  IF attempt > AZURE_MAPS_MAX_RETRIES + 1
  THEN [result |-> NoGeocode, used |-> attempt, counted |-> 0]
  ELSE LET r == script[attempt + 1]
           stop(res, n) == [result |-> res, used |-> attempt + 1, counted |-> n]
       IN CASE r.kind = "ok" ->
                 IF Truthy(r.lat) /\ Truthy(r.lon)
                 THEN stop([lat |-> r.lat, lon |-> r.lon, nivel |-> "azure_maps"], 1)
                 ELSE stop(NoGeocode, 1)
            [] r.kind = "empty" -> stop(NoGeocode, 1)
            [] r.kind \in {"timeout", "http429"} ->
                 IF attempt < AZURE_MAPS_MAX_RETRIES + 1
                 THEN retry_loop_extra_attempt(script, attempt + 1)
                 ELSE stop(NoGeocode, 0)
            [] OTHER -> stop(NoGeocode, 0)

\* a retry loop that also retries after an HTTP error
RECURSIVE retry_loop_retries_http_error(_, _)
retry_loop_retries_http_error(script, attempt) ==
  IF attempt > AZURE_MAPS_MAX_RETRIES
  THEN [result |-> NoGeocode, used |-> attempt, counted |-> 0]
  ELSE LET r == script[attempt + 1]
           stop(res, n) == [result |-> res, used |-> attempt + 1, counted |-> n]
       IN CASE r.kind = "ok" ->
                 IF Truthy(r.lat) /\ Truthy(r.lon)
                 THEN stop([lat |-> r.lat, lon |-> r.lon, nivel |-> "azure_maps"], 1)
                 ELSE stop(NoGeocode, 1)
            [] r.kind = "empty" -> stop(NoGeocode, 1)
            [] r.kind \in {"timeout", "http429", "httperror"} ->
                 IF attempt < AZURE_MAPS_MAX_RETRIES
                 THEN retry_loop_retries_http_error(script, attempt + 1)
                 ELSE stop(NoGeocode, 0)
            [] OTHER -> stop(NoGeocode, 0)

\* the retry loop of geocode_address, from `attempt` on: the value returned, the
\* responses consumed (HTTP requests issued) and the increment of request_count
RECURSIVE retry_loop(_, _)
retry_loop(script, attempt) ==
  IF attempt > AZURE_MAPS_MAX_RETRIES
  THEN [result |-> NoGeocode, used |-> attempt, counted |-> 0]
  ELSE LET r == script[attempt + 1]
           stop(res, n) == [result |-> res, used |-> attempt + 1, counted |-> n]
       IN CASE r.kind = "ok" ->
                 IF Truthy(r.lat) /\ Truthy(r.lon)
                 THEN stop([lat |-> r.lat, lon |-> r.lon, nivel |-> "azure_maps"], 1)
                 ELSE stop(NoGeocode, 1)
            [] r.kind = "empty" -> stop(NoGeocode, 1)
            [] r.kind = "timeout" ->
                 IF attempt < AZURE_MAPS_MAX_RETRIES
                 THEN retry_loop(script, attempt + 1)
                 ELSE stop(NoGeocode, 0)
            [] r.kind = "http429" ->
                 IF attempt < AZURE_MAPS_MAX_RETRIES
                 THEN retry_loop(script, attempt + 1)
                 ELSE stop(NoGeocode, 0)
            [] OTHER -> stop(NoGeocode, 0)

\* the body of geocode_address (a cache miss)
geocode_address_body(gc, script) ==
  IF ~gc.api_key
  THEN [result |-> NoGeocode, used |-> 0, counted |-> 0]
  ELSE retry_loop(script, 0)

\* position of `key` in the cache, 0 when absent
cache_find(cache, key) ==
  IF \E i \in 1..Len(cache) : cache[i].key = key
  THEN CHOOSE i \in 1..Len(cache) : cache[i].key = key
  ELSE 0

\* functools.lru_cache: a hit moves the entry to the most-recent end
cache_touch(cache, i) ==
  [j \in 1..Len(cache) |->
     IF j < i THEN cache[j] ELSE IF j < Len(cache) THEN cache[j + 1] ELSE cache[i]]

\* a cache that holds one entry less than maxsize
cache_store_small(cache, key, value) ==
  LET c == Append(cache, [key |-> key, value |-> value])
  IN IF Len(c) >= LRU_MAXSIZE THEN Tail(c) ELSE c

\* functools.lru_cache: a miss stores the entry and evicts the least recent one
\* once more than maxsize entries are held
cache_store(cache, key, value) ==
  LET c == Append(cache, [key |-> key, value |-> value])
  IN IF Len(c) > LRU_MAXSIZE THEN Tail(c) ELSE c

\* AzureMapsGeocoder.geocode_address behind @lru_cache(maxsize=500): the value
\* returned, the client afterwards, and the responses consumed
cache_hit(gc, i) ==
  [result |-> gc.cache[i].value,
   geocoder |-> [gc EXCEPT !.cache = cache_touch(gc.cache, i)],
   requests |-> <<>>]

cache_miss(gc, key, b, script) ==
  [result |-> b.result,
   geocoder |-> [gc EXCEPT !.cache = cache_store(gc.cache, key, b.result),
                           !.request_count = gc.request_count + b.counted],
   requests |-> SubSeq(script, 1, b.used)]

geocode_address(gc, address, departamento, script) ==
  IF cache_find(gc.cache, <<address, departamento>>) # 0
  THEN cache_hit(gc, cache_find(gc.cache, <<address, departamento>>))
  ELSE cache_miss(gc, <<address, departamento>>, geocode_address_body(gc, script),
                  script)

\* geocode_address_azure: the convenience function over the singleton
geocode_address_azure(gc, key, address, departamento, script) ==
  geocode_address(get_azure_geocoder(gc, key), address, departamento, script)

(***************************************************************************)
(* GeocodingService (src/src/enrichment/geocoding_service.py)              *)
(***************************************************************************)
\* the gazetteer CSV: district rows (adm3, adm2, adm1, lat, lon); lat/lon that did
\* not parse as numbers were written as missing values (build_peru_gazetteer)
GazetteerCsv ==
  << [adm3_name |-> sLIMA, adm2_name |-> sLIMA, adm1_name |-> sLIMA,
      lat |-> Num(-12), lon |-> Num(-77)],
     [adm3_name |-> sATE, adm2_name |-> sLIMA, adm1_name |-> sLIMA,
      lat |-> Num(-12), lon |-> Num(-76)],
     [adm3_name |-> sICA, adm2_name |-> sICA, adm1_name |-> sICA,
      lat |-> FNaN, lon |-> FNaN] >>

\* GeocodingService._load_gazetteer: an empty frame when the file is missing, else
\* the rows with their normalised search columns
_load_gazetteer(file_exists) ==
  IF ~file_exists
  THEN <<>>
  ELSE [i \in 1..Len(GazetteerCsv) |->
          [lat |-> GazetteerCsv[i].lat,
           lon |-> GazetteerCsv[i].lon,
           distrito_norm |-> strip(lower(GazetteerCsv[i].adm3_name)),
           provincia_norm |-> strip(lower(GazetteerCsv[i].adm2_name)),
           departamento_norm |-> strip(lower(GazetteerCsv[i].adm1_name))]]

\* GeocodingService.normalize_text; a float nan has no .lower(): see normalize_raises
normalize_text(text) == IF NotText(text) THEN <<>> ELSE strip(lower(text))
normalize_raises(text) == text = NaNText

\* GeocodingService._is_adm4 raises AttributeError
_is_adm4_raises(ubicacion_especifica, distrito, provincia, departamento) ==
  /\ ~NotText(ubicacion_especifica)
  /\ \/ normalize_raises(ubicacion_especifica)
     \/ normalize_raises(distrito)
     \/ normalize_raises(provincia)
     \/ normalize_raises(departamento)

\* GeocodingService._is_adm4 (where it does not raise)
_is_adm4(ubicacion_especifica, distrito, provincia, departamento) ==
  IF NotText(ubicacion_especifica)
  THEN FALSE
  ELSE LET ubic_norm == normalize_text(ubicacion_especifica)
           dist_norm == normalize_text(distrito)
           prov_norm == normalize_text(provincia)
           depto_norm == normalize_text(departamento)
       IN /\ ubic_norm # dist_norm
          /\ ubic_norm # prov_norm
          /\ ubic_norm # depto_norm
          /\ ubic_norm # <<>>

\* index of the first gazetteer row with the given normalised names (match.iloc[0]),
\* 0 when no row matches; provincia <<>> stands for "not compared"
gazetteer_match(gaz, dist, prov, depto) ==
  LET hit(i) == /\ gaz[i].distrito_norm = dist
                /\ (prov = <<>> \/ gaz[i].provincia_norm = prov)
                /\ gaz[i].departamento_norm = depto
  IN IF \E i \in 1..Len(gaz) : hit(i)
     THEN CHOOSE i \in 1..Len(gaz) : hit(i) /\ \A j \in 1..(i - 1) : ~hit(j)
     ELSE 0

\* the tuple geocode_incident returns, with the geocoder client as the call left it
\* and the HTTP responses the call consumed
Returned(lat, lon, nivel, adm4, gc, requests) ==
  [lat |-> lat, lon |-> lon, nivel_geo |-> nivel, adm4_name |-> adm4,
   raised |-> FALSE, geocoder |-> gc, requests |-> requests]
\* the call ended in an exception
Raised(gc) ==
  [lat |-> FNone, lon |-> FNone, nivel_geo |-> "None", adm4_name |-> None,
   raised |-> TRUE, geocoder |-> gc, requests |-> <<>>]

\* a chain that labels the province capital with a level of its own
gazetteer_chain_capital(gaz, dist_norm, prov_norm, depto_norm, llm_lat, llm_lon, gc, requests) ==
  LET m3 == IF dist_norm # <<>> /\ prov_norm # <<>> /\ depto_norm # <<>>
            THEN gazetteer_match(gaz, dist_norm, prov_norm, depto_norm) ELSE 0
      m4 == IF prov_norm # <<>> /\ depto_norm # <<>>
            THEN gazetteer_match(gaz, prov_norm, prov_norm, depto_norm) ELSE 0
  IN IF m3 # 0 THEN Returned(gaz[m3].lat, gaz[m3].lon, "distrito", None, gc, requests)
     ELSE IF m4 # 0 THEN Returned(gaz[m4].lat, gaz[m4].lon, "capital", None, gc, requests)
     ELSE IF Truthy(llm_lat) /\ Truthy(llm_lon)
          THEN Returned(llm_lat, llm_lon, "estimado", None, gc, requests)
     ELSE Returned(FNone, FNone, "None", None, gc, requests)

\* strategies 3 to 7 of geocode_incident: district, province capital, department
\* capital, LLM estimate, nothing
gazetteer_chain(gaz, dist_norm, prov_norm, depto_norm, llm_lat, llm_lon, gc, requests) ==
  LET m3 == IF dist_norm # <<>> /\ prov_norm # <<>> /\ depto_norm # <<>>
            THEN gazetteer_match(gaz, dist_norm, prov_norm, depto_norm) ELSE 0
      m4 == IF prov_norm # <<>> /\ depto_norm # <<>>
            THEN gazetteer_match(gaz, prov_norm, prov_norm, depto_norm) ELSE 0
      m5 == IF depto_norm # <<>>
            THEN gazetteer_match(gaz, depto_norm, <<>>, depto_norm) ELSE 0
  IN IF m3 # 0 THEN Returned(gaz[m3].lat, gaz[m3].lon, "distrito", None, gc, requests)
     ELSE IF m4 # 0 THEN Returned(gaz[m4].lat, gaz[m4].lon, "provincia", None, gc, requests)
     ELSE IF m5 # 0 THEN Returned(gaz[m5].lat, gaz[m5].lon, "departamento", None, gc, requests)
     ELSE IF Truthy(llm_lat) /\ Truthy(llm_lon)
          THEN Returned(llm_lat, llm_lon, "estimado", None, gc, requests)
     ELSE Returned(FNone, FNone, "None", None, gc, requests)

\* an empty-gazetteer branch that keeps the place name whatever the level
no_gazetteer_fallback_keeps_name(inc, gc) ==
  IF Truthy(inc.llm_lat) /\ Truthy(inc.llm_lon)
  THEN Returned(inc.llm_lat, inc.llm_lon, "estimado", inc.ubicacion_especifica, gc, <<>>)
  ELSE Returned(FNone, FNone, "None", None, gc, <<>>)

\* geocode_incident when the gazetteer is empty (the file was missing)
no_gazetteer_fallback(inc, gc) ==
  IF Truthy(inc.llm_lat) /\ Truthy(inc.llm_lon)
  THEN IF _is_adm4_raises(inc.ubicacion_especifica, inc.distrito, inc.provincia,
                          inc.departamento)
       THEN Raised(gc)
       ELSE IF _is_adm4(inc.ubicacion_especifica, inc.distrito, inc.provincia,
                        inc.departamento)
            THEN Returned(inc.llm_lat, inc.llm_lon, "especifico",
                          inc.ubicacion_especifica, gc, <<>>)
            ELSE Returned(inc.llm_lat, inc.llm_lon, "estimado", None, gc, <<>>)
  ELSE Returned(FNone, FNone, "None", None, gc, <<>>)

\* strategy 2 of geocode_incident, given what geocode_address_azure answered (`az`),
\* and the strategies after it
azure_or_gazetteer(gaz, inc, az) ==
  IF az.result # NoGeocode
  THEN Returned(az.result.lat, az.result.lon, "azure_maps",
                inc.ubicacion_especifica, az.geocoder, az.requests)
  ELSE gazetteer_chain(gaz, normalize_text(inc.distrito),
                       normalize_text(inc.provincia),
                       normalize_text(inc.departamento),
                       inc.llm_lat, inc.llm_lon, az.geocoder, az.requests)

\* GeocodingService.geocode_incident
geocode_incident(gaz, available, gc, key, inc, script) ==
  IF Len(gaz) = 0
  THEN no_gazetteer_fallback(inc, gc)
  ELSE IF \/ normalize_raises(inc.departamento) \/ normalize_raises(inc.provincia)
          \/ normalize_raises(inc.distrito)
          \/ normalize_raises(inc.ubicacion_especifica)
       THEN Raised(gc)
  ELSE IF /\ Truthy(inc.llm_lat) /\ Truthy(inc.llm_lon)
          /\ _is_adm4(inc.ubicacion_especifica, inc.distrito, inc.provincia,
                      inc.departamento)
       THEN Returned(inc.llm_lat, inc.llm_lon, "especifico",
                     inc.ubicacion_especifica, gc, <<>>)
  ELSE IF /\ available
          /\ _is_adm4(inc.ubicacion_especifica, inc.distrito, inc.provincia,
                      inc.departamento)
       THEN azure_or_gazetteer(gaz, inc,
                               geocode_address_azure(gc, key, inc.ubicacion_especifica,
                                                     inc.departamento, script))
  ELSE azure_or_gazetteer(gaz, inc,
                          [result |-> NoGeocode, geocoder |-> gc, requests |-> <<>>])

\* the loop of geocode_batch over the rows of a frame: one geocode_incident per row
\* in order, the geocoder client threaded through; `scripts[i]` is what the API
\* would answer to row i.  `st` holds the results so far and the client.
row_result(st, r) ==
  [results |-> IF r.raised THEN <<>> ELSE Append(st.results, r),
   geocoder |-> r.geocoder,
   raised |-> r.raised]

RECURSIVE batch_results(_, _, _, _, _, _, _)
batch_results(gaz, available, key, rows, scripts, i, st) ==
  IF i > Len(rows) \/ st.raised
  THEN st
  ELSE batch_results(gaz, available, key, rows, scripts, i + 1,
                     row_result(st, geocode_incident(gaz, available, st.geocoder, key,
                                                     rows[i], scripts[i])))

\* the merge at the end of geocode_batch: result_df has the index 0..n-1, and both
\* fillna and the column assignment align on index labels
batch_output(frame, results) ==
  [i \in 1..Len(frame.rows) |->
     LET label == frame.index[i]
     IN IF label \in 0..(Len(results) - 1)
        THEN LET r == results[label + 1]
             IN [lat |-> IF IsNull(r.lat) THEN frame.rows[i].llm_lat ELSE r.lat,
                 lon |-> IF IsNull(r.lon) THEN frame.rows[i].llm_lon ELSE r.lon,
                 nivel_geo |-> r.nivel_geo,
                 adm4_name |-> r.adm4_name]
        ELSE [lat |-> FNaN, lon |-> FNaN, nivel_geo |-> "None", adm4_name |-> None]]

\* what geocode_batch leaves: the frame it returns, the per-row results and the
\* client.  No frame when a row raised, or when there were no rows: the empty
\* result_df has no 'lat_geocoded' column (KeyError)
batch_return(frame, b) ==
  [rows |-> IF b.raised \/ Len(frame.rows) = 0 THEN <<>>
            ELSE batch_output(frame, b.results),
   results |-> b.results,
   raised |-> b.raised \/ Len(frame.rows) = 0,
   geocoder |-> b.geocoder]

\* GeocodingService.geocode_batch
geocode_batch(gaz, available, gc, key, frame, scripts) ==
  batch_return(frame, batch_results(gaz, available, key, frame.rows, scripts, 1,
                                    [results |-> <<>>, geocoder |-> gc, raised |-> FALSE]))

(***************************************************************************)
(* Candidate generation (src/scripts/run_location_candidates.py)           *)
(***************************************************************************)
AsciiLower == {LowerLetters[i] : i \in 1..26}
Digits == <<"0", "1", "2", "3", "4", "5", "6", "7", "8", "9">>
DigitSet == {Digits[i] : i \in 1..Len(Digits)}

\* unicodedata.normalize("NFKD", s) followed by dropping the combining marks
Unaccent ==
  [c \in {"á", "é", "í", "ó", "ú", "ñ"} |->
     CASE c = "á" -> "a" [] c = "é" -> "e" [] c = "í" -> "i"
       [] c = "ó" -> "o" [] c = "ú" -> "u" [] c = "ñ" -> "n"]
strip_combining(s) ==
  [i \in 1..Len(s) |-> IF s[i] \in DOMAIN Unaccent THEN Unaccent[s[i]] ELSE s[i]]

\* re.sub(r"[^a-z0-9\s]", " ", s)
sub_non_alnum(s) ==
  [i \in 1..Len(s) |->
     IF s[i] \in AsciiLower \/ s[i] \in DigitSet \/ IsSpace(s[i]) THEN s[i] ELSE " "]

\* re.sub(r"\s+", " ", s)
RECURSIVE collapse_spaces(_)
collapse_spaces(s) ==
  IF s = <<>> THEN <<>>
  ELSE IF IsSpace(Head(s)) THEN <<" ">> \o collapse_spaces(lstrip(s))
  ELSE <<Head(s)>> \o collapse_spaces(Tail(s))

\* normalize
normalize(s) ==
  strip(collapse_spaces(sub_non_alnum(strip_combining(
    strip(lower(IF s = None THEN <<>> ELSE s))))))

\* str.find(sub) + 1: position of the first occurrence of `sub` in s, 0 when absent
find(s, sub) ==
  LET at(i) == SubSeq(s, i, i + Len(sub) - 1) = sub
      starts == {i \in 1..(Len(s) - Len(sub) + 1) : at(i)}
  IN IF starts = {} THEN 0 ELSE CHOOSE i \in starts : \A j \in starts : i <= j

\* s.split(sep)[0]
split_head(s, sep) == IF find(s, sep) = 0 THEN s ELSE SubSeq(s, 1, find(s, sep) - 1)

\* s.split(" ")
RECURSIVE split(_)
split(s) ==
  IF find(s, <<" ">>) = 0 THEN <<s>>
  ELSE <<split_head(s, <<" ">>)>> \o split(SubSeq(s, find(s, <<" ">>) + 1, Len(s)))

\* tokenize
tokenize(s) == IF normalize(s) = <<>> THEN <<>> ELSE split(normalize(s))

\* " ".join(tokens)
RECURSIVE join(_)
join(tokens) ==
  IF Len(tokens) = 0 THEN <<>>
  ELSE IF Len(tokens) = 1 THEN tokens[1]
  ELSE tokens[1] \o <<" ">> \o join(Tail(tokens))

\* ngrams
ngrams(tokens, n) ==
  [i \in 1..(IF Len(tokens) >= n THEN Len(tokens) - n + 1 ELSE 0) |->
     join(SubSeq(tokens, i, i + n - 1))]

\* a scoring whose length bonus shrinks with the number of matched tokens
score_candidate_short_first(matched_ngram, adm_level, in_location_text) ==
  LET n_tokens == Len(split(matched_ngram))
      base == CASE adm_level = 1 -> 20 [] adm_level = 2 -> 35 [] adm_level = 3 -> 50
                [] OTHER -> 20
      length_bonus == CASE n_tokens = 1 -> 30 [] n_tokens = 2 -> 20 [] n_tokens = 3 -> 10
                        [] OTHER -> 10
      loc_boost == IF in_location_text THEN 15 ELSE 0
      total == base + length_bonus + loc_boost
  IN IF total > 100 THEN 100 ELSE total

\* score_candidate, in hundredths (0.15 is 15)
score_candidate(matched_ngram, adm_level, in_location_text) ==
  LET n_tokens == Len(split(matched_ngram))
      base == CASE adm_level = 1 -> 20 [] adm_level = 2 -> 35 [] adm_level = 3 -> 50
                [] OTHER -> 20
      length_bonus == CASE n_tokens = 1 -> 10 [] n_tokens = 2 -> 20 [] n_tokens = 3 -> 30
                        [] OTHER -> 10
      loc_boost == IF in_location_text THEN 15 ELSE 0
      total == base + length_bonus + loc_boost
  IN IF total > 100 THEN 100 ELSE total

\* dim_places_pe: the gazetteer snapshot. place_id is the zero-padded UBIGEO
\* (shortened), display_name is "adm3, adm2, adm1" and search_name its lower case;
\* one row came without a search_name
sAteIcaIca == <<"A","t","e",","," ","I","c","a",","," ","I","c","a">>
sAteBIloIlo == <<"A","t","e"," ","-"," ","B",","," ","I","l","o",","," ","I","l","o">>
sIcaDisplay == <<"I","c","á",","," ","I","c","a",","," ","I","c","a">>
sIca == <<"I","c","a">>
sIcaAccent == <<"I","c","á">>
sIlo == <<"I","l","o">>
sAteB == <<"A","t","e"," ","-"," ","B">>
dim_places_pe ==
  { [place_id |-> <<"0","1","0","3">>, display_name |-> sAteIcaIca,
     search_name |-> lower(sAteIcaIca),
     adm1_name |-> sIca, adm2_name |-> sIca, adm3_name |-> sAte,
     lat |-> Num(-14), lon |-> Num(-75)],
    [place_id |-> <<"0","2","0","1">>, display_name |-> sAteBIloIlo,
     search_name |-> lower(sAteBIloIlo),
     adm1_name |-> sIlo, adm2_name |-> sIlo, adm3_name |-> sAteB,
     lat |-> Num(-17), lon |-> Num(-71)],
    [place_id |-> <<"0","1","0","1">>, display_name |-> sIcaDisplay,
     search_name |-> None,
     adm1_name |-> sIca, adm2_name |-> sIca, adm3_name |-> sIcaAccent,
     lat |-> Num(-14), lon |-> Num(-76)] }

\* the orders in which a SELECT without ORDER BY can return the rows of a table
Orderings(rows) ==
  {o \in [1..Cardinality(rows) -> rows] : \A i, j \in DOMAIN o : o[i] = o[j] => i = j}

Separators == << <<" ", "-", " ">>, <<" ", "/", " ">>, <<" ", "|", " ">> >>
\* an index that registers the full name of a place only
place_keys_full_only(full) == <<full>>

\* the keys build_place_index registers for a place name: the full name, the short
\* alias before the first comma, and the part before " - ", " / " or " | "
place_keys(full) ==
  LET short == strip(split_head(full, <<",">>))
      alias(k) == IF find(full, Separators[k]) # 0
                  THEN <<strip(split_head(full, Separators[k]))>> ELSE <<>>
  IN <<full>>
     \o (IF short # <<>> /\ lower(short) # lower(full) THEN <<short>> ELSE <<>>)
     \o alias(1) \o alias(2) \o alias(3)

\* an add_key that registers the key as it is written
add_key_as_written(index, key, pr) ==
  IF key = <<>> THEN index ELSE Append(index, [key |-> key, pr |-> pr])

\* add_key: index.setdefault(normalize(key), []).append(pr); the index is kept as
\* the sequence of its (key, place) entries in insertion order
add_key(index, key, pr) ==
  IF normalize(key) = <<>> THEN index
  ELSE Append(index, [key |-> normalize(key), pr |-> pr])

RECURSIVE add_keys(_, _, _)
add_keys(index, keys, pr) ==
  IF keys = <<>> THEN index ELSE add_keys(add_key(index, Head(keys), pr), Tail(keys), pr)

\* COALESCE(search_name, display_name)
place_name(row) == IF row.search_name # None THEN row.search_name ELSE row.display_name

\* PlaceRow(...)
PlaceRow(row) ==
  [place_id |-> row.place_id,
   adm_level |-> IF ~NotText(row.adm3_name) THEN 3
                 ELSE IF ~NotText(row.adm2_name) THEN 2 ELSE 1,
   adm1 |-> row.adm1_name, adm2 |-> row.adm2_name, adm3 |-> row.adm3_name,
   lat |-> row.lat, lon |-> row.lon]

\* build_place_index over the rows as the query returned them
RECURSIVE build_place_index(_)
build_place_index(rows) ==
  IF rows = <<>> THEN <<>>
  ELSE LET row == rows[Len(rows)]
           index == build_place_index(SubSeq(rows, 1, Len(rows) - 1))
       IN IF place_name(row) = None \/ strip(place_name(row)) = <<>>
          THEN index
          ELSE add_keys(index, place_keys(strip(place_name(row))), PlaceRow(row))

\* place_index[ng], empty when ng is not a key
index_get(index, ng) ==
  LET hit(e) == e.key = ng
      entries == SelectSeq(index, hit)
  IN [i \in 1..Len(entries) |-> entries[i].pr]

RECURSIVE flatten(_)
flatten(seqs) == IF seqs = <<>> THEN <<>> ELSE Head(seqs) \o flatten(Tail(seqs))

\* f"ngram_{n}_{field}"
method_tag(n, field) ==
  CASE field = "loc" -> <<"ngram_1_loc", "ngram_2_loc", "ngram_3_loc">>[n]
    [] field = "title" -> <<"ngram_1_title", "ngram_2_title", "ngram_3_title">>[n]
    [] field = "body" -> <<"ngram_1_body", "ngram_2_body", "ngram_3_body">>[n]

\* the tuples appended for one n-gram found in the index, one per place of the key
place_candidates(prs, ng, n, field) ==
  [j \in 1..Len(prs) |->
     [score |-> score_candidate(ng, prs[j].adm_level, field = "loc"),
      ng |-> ng, pr |-> prs[j], method |-> method_tag(n, field)]]

ngram_candidates(index, ngs, n, field) ==
  flatten([i \in 1..Len(ngs) |-> place_candidates(index_get(index, ngs[i]), ngs[i], n, field)])

\* the candidates one field contributes for n-grams of length n, in loop order
field_candidates(index, tokens, n, field) ==
  ngram_candidates(index, ngrams(tokens, n), n, field)

\* a candidates list that scans the body whether or not it was asked to
incident_candidates_with_body(index, inc, use_body) ==
  LET of(n) == field_candidates(index, tokenize(inc.location_text), n, "loc")
               \o field_candidates(index, tokenize(inc.title), n, "title")
               \o field_candidates(index, tokenize(inc.body), n, "body")
  IN of(3) \o of(2) \o of(1)

\* the candidates list of one incident: n = 3, 2, 1; location_text, title, body
incident_candidates(index, inc, use_body) ==
  LET of(n) == field_candidates(index, tokenize(inc.location_text), n, "loc")
               \o field_candidates(index, tokenize(inc.title), n, "title")
               \o (IF use_body
                   THEN field_candidates(index, tokenize(inc.body), n, "body")
                   ELSE <<>>)
  IN of(3) \o of(2) \o of(1)

\* list.sort / sorted with key=score, reverse=True: stable, so a tuple goes
\* before the tuples behind it that do not score higher
insert_by_score(c, rest, k) == SubSeq(rest, 1, k) \o <<c>> \o SubSeq(rest, k + 1, Len(rest))
place_by_score(c, rest) ==
  insert_by_score(c, rest, Cardinality({i \in 1..Len(rest) : rest[i].score > c.score}))
RECURSIVE sort_by_score(_)
sort_by_score(cands) ==
  IF cands = <<>> THEN <<>>
  ELSE place_by_score(Head(cands), sort_by_score(Tail(cands)))

\* best_by_place: a dict in insertion order; a place is replaced by a better score
RECURSIVE best_by_place(_, _)
best_by_place(cands, best) ==
  IF cands = <<>> THEN best
  ELSE LET c == Head(cands)
           held == {i \in 1..Len(best) : best[i].pr.place_id = c.pr.place_id}
       IN IF held = {}
          THEN best_by_place(Tail(cands), Append(best, c))
          ELSE IF c.score > best[CHOOSE i \in held : TRUE].score
               THEN best_by_place(Tail(cands),
                                  [best EXCEPT ![CHOOSE i \in held : TRUE] = c])
               ELSE best_by_place(Tail(cands), best)

\* a dedupe that keeps, for each place, the hit appended last
dedupe_by_place_last(cands) ==
  LET keep == {i \in 1..Len(cands) :
                 \A j \in (i + 1)..Len(cands) : cands[j].pr.place_id # cands[i].pr.place_id}
  IN [k \in 1..Cardinality(keep) |->
        cands[CHOOSE i \in keep : Cardinality({j \in keep : j <= i}) = k]]

\* candidates.sort(...) and the dedupe by place_id keeping the best score
dedupe_by_place(cands) == best_by_place(sort_by_score(cands), <<>>)

\* a slice that keeps the last k elements
take_last(s, k) == SubSeq(s, (IF Len(s) < k THEN 0 ELSE Len(s) - k) + 1, Len(s))

\* s[: k]
take(s, k) == SubSeq(s, 1, IF Len(s) < k THEN Len(s) ELSE k)

\* sorted(best_by_place.values(), ...)[: top_k]
top_candidates(cands, top_k) == take(sort_by_score(dedupe_by_place(cands)), top_k)

\* the row inserted into stg_incident_place_candidates
candidate_row(run_id, incident_id, c) ==
  [ingest_run_id |-> run_id, incident_id |-> incident_id,
   matched_text_norm |-> c.ng, matched_tokens |-> Len(split(c.ng)),
   candidate_place_id |-> c.pr.place_id,
   candidate_adm1 |-> c.pr.adm1, candidate_adm2 |-> c.pr.adm2,
   candidate_adm3 |-> c.pr.adm3,
   candidate_lat |-> c.pr.lat, candidate_lon |-> c.pr.lon,
   method |-> c.method, score |-> c.score]

final_rows(run_id, incident_id, final) ==
  [j \in 1..Len(final) |-> candidate_row(run_id, incident_id, final[j])]

\* the rows inserted for the incidents of a run, in insertion order
inserted_rows(index, run_id, top_k, use_body, inc_rows) ==
  flatten([k \in 1..Len(inc_rows) |->
             final_rows(run_id, inc_rows[k].incident_id,
                        top_candidates(incident_candidates(index, inc_rows[k], use_body),
                                       top_k))])

\* a table is a bag of rows
rows_to_bag(rows) ==
  [r \in {rows[i] : i \in 1..Len(rows)} |->
     Cardinality({i \in 1..Len(rows) : rows[i] = r})]
\* SELECT ... WHERE ingest_run_id = ? / DELETE ... WHERE ingest_run_id = ?
of_run(table, run_id) ==
  [r \in {x \in DOMAIN table : x.ingest_run_id = run_id} |-> table[r]]
delete_every_run(table, run_id) == EmptyBag
delete_run(table, run_id) ==
  [r \in {x \in DOMAIN table : x.ingest_run_id # run_id} |-> table[r]]

\* run_location_candidates.main: stg_incident_place_candidates afterwards
run_location_candidates(table, run_id, top_k, use_body, index, inc_rows) ==
  delete_run(table, run_id)
    (+) rows_to_bag(inserted_rows(index, run_id, top_k, use_body, inc_rows))

(***************************************************************************)
(* Primary placement (src/scripts/run_geo_resolve_incidents.py) and the    *)
(* fact table (src/scripts/build_fct_incident_places.py)                   *)
(***************************************************************************)
\* VARCHAR comparison a < b of two place_id strings (digits)
char_code(c) == CHOOSE i \in 1..Len(Digits) : Digits[i] = c
RECURSIVE str_less(_, _)
str_less(a, b) ==
  IF b = <<>> THEN FALSE
  ELSE IF a = <<>> THEN TRUE
  ELSE IF Head(a) = Head(b) THEN str_less(Tail(a), Tail(b))
  ELSE char_code(Head(a)) < char_code(Head(b))

\* an ordering that breaks the last tie towards the larger place_id
row_number_before_desc(a, b) ==
  \/ a.score > b.score
  \/ a.score = b.score /\ a.matched_tokens > b.matched_tokens
  \/ a.score = b.score /\ a.matched_tokens = b.matched_tokens
     /\ str_less(b.candidate_place_id, a.candidate_place_id)

\* ORDER BY c.score DESC, c.matched_tokens DESC, c.candidate_place_id ASC
row_number_before(a, b) ==
  \/ a.score > b.score
  \/ a.score = b.score /\ a.matched_tokens > b.matched_tokens
  \/ a.score = b.score /\ a.matched_tokens = b.matched_tokens
     /\ str_less(a.candidate_place_id, b.candidate_place_id)

\* PARTITION BY c.ingest_run_id, c.incident_id
partition(c) == <<c.ingest_run_id, c.incident_id>>
partitions(table) == {partition(c) : c \in DOMAIN table}

\* the rows ROW_NUMBER() may number 1 in a partition: those no row is ordered before
first_rows(table, p) ==
  {c \in DOMAIN table :
     /\ partition(c) = p
     /\ \A o \in DOMAIN table : partition(o) = p => ~row_number_before(o, c)}

\* the numberings ROW_NUMBER() can produce, as the row numbered 1 in each partition
row_numberings(table) ==
  {pick \in [partitions(table) -> DOMAIN table] :
     \A p \in partitions(table) : pick[p] \in first_rows(table, p)}

\* the row selected from a candidate
map_row(c, is_primary) ==
  [ingest_run_id |-> c.ingest_run_id, incident_id |-> c.incident_id,
   place_id |-> c.candidate_place_id,
   adm1 |-> c.candidate_adm1, adm2 |-> c.candidate_adm2, adm3 |-> c.candidate_adm3,
   lat |-> c.candidate_lat, lon |-> c.candidate_lon,
   matched_text_norm |-> c.matched_text_norm, matched_tokens |-> c.matched_tokens,
   method |-> c.method, score |-> c.score,
   is_primary |-> is_primary]

\* INSERT INTO map_incident_place ... SELECT: one copy of the row numbered 1 is
\* primary, every other copy of every row is not
selected_rows(table, pick) ==
  SetToBag({map_row(pick[p], TRUE) : p \in DOMAIN pick})
    (+) [m \in {map_row(c, FALSE) : c \in {x \in DOMAIN table :
                                            table[x] > 1 \/ pick[partition(x)] # x}} |->
           LET c == CHOOSE x \in DOMAIN table : map_row(x, FALSE) = m
           IN IF pick[partition(c)] = c THEN table[c] - 1 ELSE table[c]]

\* UPDATE stg_incidents_extracted ... FROM map_incident_place p WHERE p.is_primary
update_staging(staging, map, run_id) ==
  { IF e.ingest_run_id = run_id
       /\ \E p \in DOMAIN map : /\ p.ingest_run_id = e.ingest_run_id
                                /\ p.incident_id = e.incident_id
                                /\ p.is_primary
    THEN LET p == CHOOSE p \in DOMAIN map : /\ p.ingest_run_id = e.ingest_run_id
                                            /\ p.incident_id = e.incident_id
                                            /\ p.is_primary
         IN [e EXCEPT !.place_id = p.place_id, !.adm1 = p.adm1, !.adm2 = p.adm2,
                      !.adm3 = p.adm3, !.lat = p.lat, !.lon = p.lon]
    ELSE e : e \in staging }

\* run_geo_resolve_incidents.main: map_incident_place afterwards
run_geo_resolve_incidents(map, candidates, run_id, pick) ==
  delete_run(map, run_id) (+) selected_rows(of_run(candidates, run_id), pick)

\* SELECT ingest_run_id, incident_id, place_id, score, method, is_primary
fct_row(m) ==
  [ingest_run_id |-> m.ingest_run_id, incident_id |-> m.incident_id,
   place_id |-> m.place_id, score |-> m.score, method |-> m.method,
   is_primary |-> m.is_primary]
select_fct(table) ==
  [f \in {fct_row(m) : m \in DOMAIN table} |->
     BagCardinality([m \in {x \in DOMAIN table : fct_row(x) = f} |-> table[m]])]

\* build_fct_incident_places.main: fct_incident_places afterwards
build_fct_incident_places(fct, map, run_id) ==
  delete_run(fct, run_id) (+) select_fct(of_run(map, run_id))

\* no score_candidate call under way
NoScoring == [shorter |-> <<>>, longer |-> <<>>, adm_level |-> 3,
              in_location_text |-> FALSE, scores |-> <<>>]
InitIdleScore == scoring = NoScoring

\* no curation script has exited yet
NoReturn == [script |-> "none", code |-> 0]

\* the curation and fact tables as the schema scripts create them: empty
InitIdleCuration ==
  /\ fct_incidents = {}
  /\ curation_incident_overrides = {}
  /\ fct_incidents_curated = {}
  /\ returned = NoReturn

\* no quality report computed yet
InitIdleQuality ==
  /\ dq_run_metrics = <<>>
  /\ outputs = <<>>

\* no worker thread runs; last_request_time as __init__ sets it
InitIdleRate ==
  /\ now = 0
  /\ last_request_time = 0
  /\ worker = <<>>
  /\ request_starts = <<>>

\* the module was imported and no thread has asked for the client
InitIdleSingleton ==
  /\ singleton = 0
  /\ clients = 0
  /\ lru = {}
  /\ thread = <<>>
  /\ api_calls = <<>>

\* no script is part-way through its statements
NotRunning == [pc |-> "idle", run_id |-> "", ended |-> "never"]
\* build_place_index was not called
NotBuilt == [built |-> FALSE, raised |-> FALSE, index |-> <<>>]
InitIdleIndex ==
  /\ dim_rows = <<>>
  /\ place_index = NotBuilt

InitIdleOther ==
  /\ InitIdleScore
  /\ InitIdleCuration
  /\ InitIdleQuality
  /\ InitIdleRate
  /\ InitIdleSingleton
  /\ running = NotRunning
  /\ InitIdleIndex

\* the candidate pipeline before any of its scripts has run on an empty staging table
InitIdlePlaces ==
  /\ cli = [top_k |-> 10, use_body |-> FALSE]
  /\ stg_incidents_extracted = {}
  /\ stg_incident_place_candidates = EmptyBag
  /\ map_incident_place = EmptyBag
  /\ fct_incident_places = EmptyBag
  /\ last = [op |-> "none", run_id |-> "", rerun |-> FALSE, before |-> EmptyBag]
  /\ done = {}

(***************************************************************************)
(* Specification Spec: one incident resolved by GeocodingService, alone    *)
(* and as the rows of a batch, against the gazetteer and the external API  *)
(***************************************************************************)
\* largest frame handed to geocode_batch
MaxBatch == 2

\* upstream (LLM / news API) coordinates: absent, missing values of a float column,
\* on the equator, inside Peru, outside the valid ranges, and half supplied
LlmCoords ==
  { <<FNone, FNone>>, <<FNaN, FNaN>>, <<Num(0), Num(-77)>>, <<Num(-12), Num(-77)>>,
    <<Num(95), Num(-200)>>, <<Num(-12), FNone>> }

Incidents ==
  { [departamento |-> d, provincia |-> p, distrito |-> t,
     ubicacion_especifica |-> u, llm_lat |-> c[1], llm_lon |-> c[2]] :
      d \in {None, NaNText, sLima, sICA},
      p \in {None, sLIMA},
      t \in {None, sAte},
      u \in {None, sGam, sAteSp},
      c \in LlmCoords }

\* an API that answers every attempt with a position
HealthyScript == <<Ok(ApiP1)>>

\* the part of a geocode_incident return the claims read
Outcome(r) ==
  [lat |-> r.lat, lon |-> r.lon, nivel_geo |-> r.nivel_geo, adm4_name |-> r.adm4_name,
   raised |-> r.raised, requests |-> r.requests]

\* what the last call left for inspection.  Before any call: `op` is the entry point called last, `script` the answers the API
\* had ready for it, `ret` what geocode_incident returned (for a batch: for its first
\* row), `rows` the frame geocode_batch returned, `api` what the client answers
NotResolved ==
  [op |-> "none", script |-> <<>>, ret |-> Outcome(Raised(NoGeocoder)), rows |-> <<>>,
   api |-> NoGeocode]

\* what the external geocoder client answers when asked for the incident's specific
\* place under `script` (no client where the import of the client module failed)
ClientAnswer(inc, script) ==
  IF AZURE_MAPS_AVAILABLE /\ ~NotText(inc.ubicacion_especifica)
     /\ ~normalize_raises(inc.ubicacion_especifica)
  THEN geocode_address_azure(azure_geocoder, AZURE_MAPS_KEY, inc.ubicacion_especifica,
                             inc.departamento, script).result
  ELSE NoGeocode

\* the API scripts worth telling apart: all of them when the call issues a request
ScriptsFor(inc) ==
  IF geocode_incident(gazetteer, AZURE_MAPS_AVAILABLE, azure_geocoder, AZURE_MAPS_KEY,
                      inc, HealthyScript).requests = <<>>
  THEN {HealthyScript}
  ELSE ResponseScripts

NoLookup == [done |-> FALSE, result |-> NoGeocode, at |-> 0]
InitIdleCache == workload = [before |-> 0, gap |-> 0] /\ fresh = 0 /\ last_lookup = NoLookup

Init ==
  /\ \E file_exists \in BOOLEAN : gazetteer = _load_gazetteer(file_exists)
  /\ AZURE_MAPS_AVAILABLE \in BOOLEAN
  /\ AZURE_MAPS_KEY \in BOOLEAN
  /\ azure_geocoder = NoGeocoder
  /\ incident \in Incidents
  /\ resolved = NotResolved
  /\ InitIdleCache
  /\ InitIdlePlaces
  /\ InitIdleOther

GeocodeIncident ==
  \E script \in ScriptsFor(incident) :
    \E r \in {geocode_incident(gazetteer, AZURE_MAPS_AVAILABLE, azure_geocoder,
                               AZURE_MAPS_KEY, incident, script)} :
       /\ resolved' = [op |-> "incident", script |-> script, ret |-> Outcome(r),
                       rows |-> <<>>, api |-> ClientAnswer(incident, script)]
       /\ azure_geocoder' = r.geocoder
       /\ UNCHANGED <<gazetteer, AZURE_MAPS_AVAILABLE, AZURE_MAPS_KEY, incident, cacheVars,
                     placeVars, otherVars>>

\* the frames handed to geocode_batch: up to MaxBatch rows holding the incident,
\* with the default index 0..n-1, and a full frame whose index starts at 1
Frames(inc) ==
  { [index |-> [i \in 1..n |-> i - 1], rows |-> [i \in 1..n |-> inc]] :
      n \in 0..MaxBatch }
  \cup { [index |-> [i \in 1..MaxBatch |-> i], rows |-> [i \in 1..MaxBatch |-> inc]] }

GeocodeBatch ==
  \E frame \in Frames(incident) :
    \E script \in IF Len(frame.rows) = 0 THEN {HealthyScript} ELSE ScriptsFor(incident) :
      \E b \in {geocode_batch(gazetteer, AZURE_MAPS_AVAILABLE, azure_geocoder,
                              AZURE_MAPS_KEY, frame,
                              [i \in 1..Len(frame.rows) |-> script])} :
         /\ resolved' = [op |-> "batch", script |-> script,
                         ret |-> IF b.raised THEN Outcome(Raised(NoGeocoder))
                                 ELSE Outcome(b.results[1]),
                         rows |-> b.rows,
                         api |-> ClientAnswer(incident, script)]
         /\ azure_geocoder' = b.geocoder
         /\ UNCHANGED <<gazetteer, AZURE_MAPS_AVAILABLE, AZURE_MAPS_KEY, incident,
                        cacheVars, placeVars, otherVars>>

Next == GeocodeIncident \/ GeocodeBatch

Spec == Init /\ [][Next]_vars

(***************************************************************************)
(* Properties of GeocodingService under Spec                               *)
(***************************************************************************)
\* the seven precision levels, as the code spells them (None: level none)
NivelGeo == {"especifico", "azure_maps", "distrito", "provincia", "departamento",
             "estimado", "None"}

\* a call has returned (not raised)
HasReturned == resolved.op # "none" /\ ~resolved.ret.raised

\* a text field holds the missing value of a pandas column
HasNaNText(inc) ==
  NaNText \in {inc.departamento, inc.provincia, inc.distrito, inc.ubicacion_especifica}

\* upstream supplied a coordinate: both parts are there
SuppliedCoordinate(inc) == ~IsNull(inc.llm_lat) /\ ~IsNull(inc.llm_lon)

\* the first state of the chain specific, external_api, district, province, region,
\* estimated, none whose precondition holds, `api` being the client's answer
FirstState(gaz, inc, api) ==
  LET specific == _is_adm4(inc.ubicacion_especifica, inc.distrito, inc.provincia,
                           inc.departamento)
      d == normalize_text(inc.distrito)
      p == normalize_text(inc.provincia)
      r == normalize_text(inc.departamento)
  IN IF SuppliedCoordinate(inc) /\ specific THEN "especifico"
     ELSE IF specific /\ api # NoGeocode THEN "azure_maps"
     ELSE IF d # <<>> /\ p # <<>> /\ r # <<>> /\ gazetteer_match(gaz, d, p, r) # 0
          THEN "distrito"
     ELSE IF p # <<>> /\ r # <<>> /\ gazetteer_match(gaz, p, p, r) # 0
          THEN "provincia"
     ELSE IF r # <<>> /\ gazetteer_match(gaz, r, <<>>, r) # 0 THEN "departamento"
     ELSE IF SuppliedCoordinate(inc) THEN "estimado"
     ELSE "None"

\* C1: the level geocode_incident returns is that of the first state, in the order
\* specific, external_api, district, province, region, estimated, none, whose
\* precondition holds.
C1_PriorityChain ==
  (HasReturned /\ ~HasNaNText(incident))
    => resolved.ret.nivel_geo = FirstState(gazetteer, incident, resolved.api)

\* C2: the level written by geocode_incident, and by geocode_batch for every row of
\* the frame it returns, is one of the seven defined levels.
C2_ClosedEnum ==
  /\ HasReturned => resolved.ret.nivel_geo \in NivelGeo
  /\ \A i \in 1..Len(resolved.rows) : resolved.rows[i].nivel_geo \in NivelGeo

\* C2 witness: a batch of MaxBatch rows resolved at the province level
C2_Witness ==
  /\ resolved.op = "batch"
  /\ Len(resolved.rows) = MaxBatch
  /\ resolved.rows[MaxBatch].nivel_geo = "provincia"

\* C3: a coordinate returned by geocode_incident, whatever tier produced it, has
\* its latitude in [-90, 90] and its longitude in [-180, 180].
C3_CoordinateRange ==
  HasReturned =>
    /\ resolved.ret.lat.tag = "num" =>
          (resolved.ret.lat.val >= -90 /\ resolved.ret.lat.val <= 90)
    /\ resolved.ret.lon.tag = "num" =>
          (resolved.ret.lon.val >= -180 /\ resolved.ret.lon.val <= 180)

\* C4: adm4_name is non-null only when the level is especifico or azure_maps; for
\* every other level it is null.
C4_Adm4OnlySpecific ==
  HasReturned =>
    (resolved.ret.adm4_name # None
       => resolved.ret.nivel_geo \in {"especifico", "azure_maps"})

\* C4 witness: an incident whose specific place repeats its district, resolved from
\* the upstream estimate, with no adm4_name
C4_Witness ==
  /\ HasReturned
  /\ incident.ubicacion_especifica = sAteSp
  /\ incident.distrito = sAte
  /\ resolved.ret.nivel_geo = "estimado"
  /\ resolved.ret.adm4_name = None

\* C5: resolving one incident never raises, for any input values; when every request
\* to the external geocoder failed the chain continues with the district, province,
\* region and estimated states, the worst outcome being level none.
C5_NeverRaises ==
  resolved.op # "none" =>
    /\ ~resolved.ret.raised
    /\ (resolved.ret.requests # <<>> /\ resolved.api = NoGeocode)
         => resolved.ret.nivel_geo \in {"distrito", "provincia", "departamento",
                                        "estimado", "None"}

\* C6: when the external geocoder times out on the first two attempts of a call and
\* answers the third with a position, the call returns that position, and the
\* incident (specific place name, no upstream coordinate) resolves at azure_maps.
C6_ThirdAttempt ==
  \A p \in {ApiP1, ApiP2} :
    (resolved.op # "none" /\ resolved.script = <<Timeout, Timeout, Ok(p)>>)
      => /\ resolved.api = [lat |-> p.lat, lon |-> p.lon, nivel |-> "azure_maps"]
         /\ ~resolved.ret.raised
         /\ resolved.ret.lat = p.lat
         /\ resolved.ret.lon = p.lon
         /\ resolved.ret.nivel_geo = "azure_maps"
         /\ resolved.ret.adm4_name = incident.ubicacion_especifica

\* C6 witness: two timeouts, then the third attempt answers with ApiP2
C6_Witness ==
  /\ resolved.op = "incident"
  /\ resolved.ret.requests = <<Timeout, Timeout, Ok(ApiP2)>>
  /\ resolved.ret.lat = ApiP2.lat
  /\ resolved.ret.nivel_geo = "azure_maps"

(***************************************************************************)
(* Specification SpecCache: one long-lived AzureMapsGeocoder asked for the *)
(* same (address, departamento) again after lookups of other addresses     *)
(***************************************************************************)
\* most distinct other addresses looked up between two lookups of the repeated one
MaxFresh == 500

\* the repeated input tuple
TrackedAddress == sGam
TrackedDepartamento == sLima

RECURSIVE decimal(_)
decimal(n) ==
  LET digit == <<"0", "1", "2", "3", "4", "5", "6", "7", "8", "9">>[(n % 10) + 1]
  IN IF n < 10 THEN <<digit>> ELSE Append(decimal(n \div 10), digit)

\* the n-th other address: all distinct, none equal to the repeated one
other_address(n) == <<"n", "o", " ">> \o decimal(n)

\* a workload: `before` other addresses, the repeated one, `gap` other addresses,
\* the repeated one again
Workloads ==
  [before : {0, 1}, gap : {0, 1, LRU_MAXSIZE - 1, MaxFresh}]

InitIdleGeo ==
  /\ gazetteer = _load_gazetteer(TRUE)
  /\ AZURE_MAPS_AVAILABLE = TRUE
  /\ incident = [departamento |-> TrackedDepartamento, provincia |-> None,
                 distrito |-> None, ubicacion_especifica |-> TrackedAddress,
                 llm_lat |-> FNone, llm_lon |-> FNone]

InitCache ==
  /\ InitIdleGeo
  /\ AZURE_MAPS_KEY \in BOOLEAN
  /\ azure_geocoder = NoGeocoder
  /\ resolved = [op |-> "none", repeat |-> FALSE, others_since |-> 0,
                 previous |-> NoGeocode, result |-> NoGeocode, requests |-> <<>>]
  /\ workload \in Workloads
  /\ fresh = 0
  /\ last_lookup = NoLookup
  /\ InitIdlePlaces
  /\ InitIdleOther

\* geocode_address_azure(TrackedAddress, TrackedDepartamento)
LookupTracked ==
  /\ fresh = IF last_lookup.done THEN workload.before + workload.gap
                                  ELSE workload.before
  /\ \E script \in ResponseScripts :
       \E r \in {geocode_address_azure(azure_geocoder, AZURE_MAPS_KEY, TrackedAddress,
                                       TrackedDepartamento, script)} :
          /\ resolved' = [op |-> "tracked", repeat |-> last_lookup.done,
                          others_since |-> fresh - last_lookup.at,
                          previous |-> last_lookup.result,
                          result |-> r.result, requests |-> r.requests]
          /\ last_lookup' = [done |-> TRUE, result |-> r.result, at |-> fresh]
          /\ azure_geocoder' = r.geocoder
  /\ UNCHANGED <<gazetteer, AZURE_MAPS_AVAILABLE, AZURE_MAPS_KEY, incident, workload, fresh,
                 placeVars, otherVars>>

\* geocode_address_azure for an address not looked up before
LookupOther ==
  /\ fresh < IF last_lookup.done THEN workload.before + workload.gap
                                  ELSE workload.before
  /\ \E r \in {geocode_address_azure(azure_geocoder, AZURE_MAPS_KEY,
                                     other_address(fresh + 1), TrackedDepartamento,
                                     HealthyScript)} :
       /\ resolved' = [op |-> "other", repeat |-> FALSE, others_since |-> 0,
                       previous |-> NoGeocode,
                       result |-> r.result, requests |-> r.requests]
       /\ azure_geocoder' = r.geocoder
  /\ fresh' = fresh + 1
  /\ UNCHANGED <<gazetteer, AZURE_MAPS_AVAILABLE, AZURE_MAPS_KEY, incident, workload,
                 last_lookup, placeVars, otherVars>>

NextCache == LookupTracked \/ LookupOther

SpecCache == InitCache /\ [][NextCache]_vars

\* C7: on one long-lived client, once a lookup of an input tuple has completed, a
\* later lookup of the same tuple returns the same result without an external
\* request, as long as fewer than LRU_MAXSIZE other distinct tuples were looked up
\* since the tuple was last looked up.
C7_CachedWhileRecent ==
  (resolved.op = "tracked" /\ resolved.repeat /\ resolved.others_since < LRU_MAXSIZE)
    => /\ resolved.requests = <<>>
       /\ resolved.result = resolved.previous

\* C7 as stated: every later lookup of the same tuple returns the same result
\* without an external request, whatever was looked up in between.
C7_CachedForever ==
  (resolved.op = "tracked" /\ resolved.repeat)
    => /\ resolved.requests = <<>>
       /\ resolved.result = resolved.previous

\* C7 witness: the tuple is served from the cache after LRU_MAXSIZE - 1 other tuples
C7_Witness ==
  /\ resolved.op = "tracked"
  /\ resolved.repeat
  /\ resolved.others_since = LRU_MAXSIZE - 1
  /\ resolved.requests = <<>>
  /\ resolved.result # NoGeocode

(***************************************************************************)
(* Specification SpecPlaces: the candidate pipeline of a run, run and run  *)
(* again in any order: run_location_candidates, run_geo_resolve_incidents, *)
(* build_fct_incident_places                                               *)
(***************************************************************************)
\* the run the scripts are invoked for, and a run they were invoked for earlier
RunIds == {"r1"}
PriorRun == "r0"
\* --top-k values tried; 10 is the default
TopKs == {1, 2, 10}

\* the incident type the rules assign
sProtest == <<"p","r","o","t","e","s","t">>

sIcaAteB == <<"I","c","á",":"," ","A","t","e"," ","-"," ","B">>

\* the text fields of the incident whose toponyms vary
IncidentTexts ==
  { [title |-> sAte, body |-> None, location_text |-> None],
    [title |-> sIcaAteB, body |-> sAteIcaIca, location_text |-> sAteSp] }

staging_row(run_id, incident_id, title, body, location_text) ==
  [ingest_run_id |-> run_id, incident_id |-> incident_id,
   title |-> title, body |-> body, location_text |-> location_text,
   incident_type |-> sProtest, confidence |-> Num(1),
   place_id |-> None, adm1 |-> None, adm2 |-> None, adm3 |-> None,
   lat |-> FNone, lon |-> FNone]

\* stg_incidents_extracted as the extraction step leaves it: incident_id is the
\* hash of the article URI, one row per deduplicated article of the run
Staging(t) ==
  { staging_row("r1", "a", t.title, t.body, t.location_text),
    staging_row("r1", "b", sGam, None, <<>>),
    staging_row(PriorRun, "a", sIcaDisplay, None, None) }

\* the tables after the three scripts ran for PriorRun with the default options;
\* its one incident names one place, so no order of rows matters to them
PriorCandidates ==
  run_location_candidates(EmptyBag, PriorRun, 10, FALSE,
                          build_place_index(CHOOSE o \in Orderings(dim_places_pe) : TRUE),
                          <<staging_row(PriorRun, "a", sIcaDisplay, None, None)>>)
PriorMap ==
  run_geo_resolve_incidents(EmptyBag, PriorCandidates, PriorRun,
                            CHOOSE pick \in row_numberings(PriorCandidates) : TRUE)
PriorFct == build_fct_incident_places(EmptyBag, PriorMap, PriorRun)

NoStep == [op |-> "none", run_id |-> "", rerun |-> FALSE, before |-> EmptyBag]

InitPlaces ==
  /\ InitIdleGeo
  /\ AZURE_MAPS_KEY = FALSE
  /\ azure_geocoder = NoGeocoder
  /\ resolved = NotResolved
  /\ InitIdleCache
  /\ cli \in [top_k : TopKs, use_body : BOOLEAN]
  /\ \E t \in IncidentTexts :
       stg_incidents_extracted = update_staging(Staging(t), PriorMap, PriorRun)
  /\ stg_incident_place_candidates = PriorCandidates
  /\ map_incident_place = PriorMap
  /\ fct_incident_places = PriorFct
  /\ last = NoStep
  /\ done = {}
  /\ InitIdleOther

\* build_place_index for each order in which the gazetteer rows can be returned
PlaceIndexes ==
  [place_rows \in Orderings({row \in dim_places_pe : place_name(row) # None}) |->
     build_place_index(place_rows)]

\* the rows of a table flagged primary
primaries(table) == {m \in DOMAIN table : m.is_primary}

\* python scripts/run_location_candidates.py --run-id run_id
RunLocationCandidates ==
  \E run_id \in RunIds :
    \E place_rows \in Orderings({row \in dim_places_pe : place_name(row) # None}) :
      \E inc_rows \in Orderings({e \in stg_incidents_extracted :
                                   e.ingest_run_id = run_id}) :
        \E index \in {PlaceIndexes[place_rows]} :
          \E table \in {run_location_candidates(stg_incident_place_candidates, run_id,
                                                cli.top_k, cli.use_body, index,
                                                inc_rows)} :
            /\ stg_incident_place_candidates' = table
            /\ last' = [op |-> "candidates", run_id |-> run_id,
                        rerun |-> <<"candidates", run_id>> \in done,
                        before |-> of_run(stg_incident_place_candidates, run_id)]
            /\ done' = done \cup {<<"candidates", run_id>>}
            /\ UNCHANGED <<geoVars, cacheVars, otherVars, cli, stg_incidents_extracted,
                           map_incident_place, fct_incident_places>>

\* python scripts/run_geo_resolve_incidents.py --run-id run_id
RunGeoResolveIncidents ==
  \E run_id \in RunIds :
    \E pick \in row_numberings(of_run(stg_incident_place_candidates, run_id)) :
      \E map \in {run_geo_resolve_incidents(map_incident_place,
                                            stg_incident_place_candidates,
                                            run_id, pick)} :
        /\ map_incident_place' = map
        /\ stg_incidents_extracted' = update_staging(stg_incidents_extracted, map, run_id)
        /\ last' = [op |-> "resolve", run_id |-> run_id,
                    rerun |-> <<"resolve", run_id>> \in done,
                    before |-> primaries(of_run(map_incident_place, run_id))]
        /\ done' = done \cup {<<"resolve", run_id>>}
        /\ UNCHANGED <<geoVars, cacheVars, otherVars, cli, stg_incident_place_candidates,
                       fct_incident_places>>

\* python scripts/build_fct_incident_places.py --run-id run_id
BuildFctIncidentPlaces ==
  \E run_id \in RunIds :
    /\ fct_incident_places' =
         build_fct_incident_places(fct_incident_places, map_incident_place, run_id)
    /\ last' = [op |-> "fct", run_id |-> run_id,
                rerun |-> <<"fct", run_id>> \in done,
                before |-> of_run(fct_incident_places, run_id)]
    /\ done' = done \cup {<<"fct", run_id>>}
    /\ UNCHANGED <<geoVars, cacheVars, otherVars, cli, stg_incidents_extracted,
                   stg_incident_place_candidates, map_incident_place>>

NextPlaces == RunLocationCandidates \/ RunGeoResolveIncidents \/ BuildFctIncidentPlaces

SpecPlaces == InitPlaces /\ [][NextPlaces]_vars

(***************************************************************************)
(* Properties of the candidate pipeline under SpecPlaces                   *)
(***************************************************************************)
\* the rows of a table that belong to an incident of a run
RowsOf(table, e) ==
  {r \in DOMAIN table : r.ingest_run_id = e.ingest_run_id /\ r.incident_id = e.incident_id}
\* the incidents of the run the last step worked on
LastIncidents == {e \in stg_incidents_extracted : e.ingest_run_id = last.run_id}

\* a place_id read as a number: the ids are zero-padded to one length
RECURSIVE PlaceNumber(_)
PlaceNumber(id) ==
  IF id = <<>> THEN 0
  ELSE 10 * PlaceNumber(SubSeq(id, 1, Len(id) - 1)) + (char_code(id[Len(id)]) - 1)

\* o comes after c under (score descending, matched token count descending,
\* place_id ascending)
ComesAfter(o, c) ==
  \/ o.score < c.score
  \/ o.score = c.score /\ o.matched_tokens < c.matched_tokens
  \/ /\ o.score = c.score
     /\ o.matched_tokens = c.matched_tokens
     /\ PlaceNumber(o.candidate_place_id) > PlaceNumber(c.candidate_place_id)
ComesFirst(c, cs) == \A o \in cs \ {c} : ComesAfter(o, c)

\* C8: after run_geo_resolve_incidents for a run, an incident of the run with
\* candidates has exactly one primary row, the candidate first under (score
\* descending, matched token count descending, place_id ascending), and an incident
\* without candidates has none; after build_fct_incident_places the primary rows of
\* the fact table are those of the map
C8_OnePrimaryFirstInOrder ==
  /\ last.op = "resolve" =>
       \A e \in LastIncidents :
         IF RowsOf(stg_incident_place_candidates, e) = {}
         THEN RowsOf(map_incident_place, e) = {}
         ELSE /\ Cardinality(primaries(map_incident_place) \cap RowsOf(map_incident_place, e)) = 1
              /\ \A m \in primaries(map_incident_place) \cap RowsOf(map_incident_place, e) :
                   /\ map_incident_place[m] = 1
                   /\ \E c \in RowsOf(stg_incident_place_candidates, e) :
                        /\ ComesFirst(c, RowsOf(stg_incident_place_candidates, e))
                        /\ m.place_id = c.candidate_place_id
                        /\ m.score = c.score
                        /\ m.matched_tokens = c.matched_tokens
  /\ last.op = "fct" =>
       \A e \in LastIncidents :
         /\ Cardinality(primaries(fct_incident_places) \cap RowsOf(fct_incident_places, e))
              = Cardinality(primaries(map_incident_place) \cap RowsOf(map_incident_place, e))
         /\ \A f \in primaries(fct_incident_places) \cap RowsOf(fct_incident_places, e) :
              /\ fct_incident_places[f] = 1
              /\ \E m \in primaries(map_incident_place) \cap RowsOf(map_incident_place, e) :
                   m.place_id = f.place_id /\ m.score = f.score

\* the fact table of a run was built from its resolved map: one incident has two
\* candidates tied on score and token count and one primary row, another has none
C8_Witness ==
  /\ last.op = "fct"
  /\ <<"resolve", last.run_id>> \in done
  /\ \E e \in LastIncidents :
       /\ \E c, o \in RowsOf(stg_incident_place_candidates, e) :
            /\ c # o
            /\ c.score = o.score
            /\ c.matched_tokens = o.matched_tokens
            /\ ComesFirst(c, RowsOf(stg_incident_place_candidates, e))
            /\ \E f \in primaries(fct_incident_places) \cap RowsOf(fct_incident_places, e) :
                 f.place_id = c.candidate_place_id
       /\ Cardinality(RowsOf(fct_incident_places, e)) >= 2
  /\ \E e \in LastIncidents :
       /\ RowsOf(stg_incident_place_candidates, e) = {}
       /\ RowsOf(fct_incident_places, e) = {}

\* the scores of all hits of a place in the fields of an incident
SearchedFields(use_body) ==
  IF use_body THEN {"location_text", "title", "body"} ELSE {"location_text", "title"}
FieldText(e, field) ==
  CASE field = "location_text" -> e.location_text
    [] field = "title" -> e.title
    [] field = "body" -> e.body
PlaceKeys(row) ==
  {normalize(place_keys(strip(place_name(row)))[i]) :
     i \in 1..Len(place_keys(strip(place_name(row))))}
NgramHits(ngs, keys, adm_level, in_location_text) ==
  {score_candidate(ngs[i], adm_level, in_location_text) :
     i \in {j \in 1..Len(ngs) : ngs[j] \in keys}}
TokenHits(tokens, keys, adm_level, in_location_text) ==
  UNION {NgramHits(ngrams(tokens, n), keys, adm_level, in_location_text) : n \in 1..3}
HitScores(e, use_body, row) ==
  UNION {TokenHits(tokenize(FieldText(e, field)), PlaceKeys(row),
                   PlaceRow(row).adm_level, field = "location_text") :
           field \in SearchedFields(use_body)}
SetMax(S) == CHOOSE x \in S : \A y \in S : y <= x

\* C9: after run_location_candidates for a run, no two candidate rows of the run
\* share (run_id, incident_id, place_id), and the score stored for a place is the
\* maximum over all n-gram and field hits of that place for that incident
C9_UniqueBestScore ==
  last.op = "candidates" =>
    \A c \in DOMAIN stg_incident_place_candidates :
      c.ingest_run_id = last.run_id =>
        /\ stg_incident_place_candidates[c] = 1
        /\ \A o \in RowsOf(stg_incident_place_candidates, c) :
             o.candidate_place_id = c.candidate_place_id => o = c
        /\ \E e \in LastIncidents :
             /\ e.incident_id = c.incident_id
             /\ \E row \in dim_places_pe :
                  /\ row.place_id = c.candidate_place_id
                  /\ HitScores(e, cli.use_body, row) # {}
                  /\ c.score = SetMax(HitScores(e, cli.use_body, row))

\* candidates were generated for a run where a stored place was hit with different
\* scores and several places were stored for the incident
C9_Witness ==
  /\ last.op = "candidates"
  /\ \E c \in DOMAIN stg_incident_place_candidates :
       /\ c.ingest_run_id = last.run_id
       /\ Cardinality(RowsOf(stg_incident_place_candidates, c)) >= 2
       /\ \E e \in LastIncidents :
            /\ e.incident_id = c.incident_id
            /\ \E row \in dim_places_pe :
                 /\ row.place_id = c.candidate_place_id
                 /\ Cardinality(HitScores(e, cli.use_body, row)) >= 2
                 /\ c.score = SetMax(HitScores(e, cli.use_body, row))

\* the places of the gazetteer hit in the fields of an incident, and the places
\* stored for it
HitPlaces(e) == {row \in dim_places_pe : HitScores(e, cli.use_body, row) # {}}
StoredPlaces(e) ==
  {row \in dim_places_pe :
     \E c \in RowsOf(stg_incident_place_candidates, e) :
       c.candidate_place_id = row.place_id}

\* C22: after run_location_candidates for a run, every incident of the run has at
\* most top-K candidate rows (as many as it has places hit, when those are fewer),
\* and no stored candidate scores below the best score of a place that was hit and
\* not stored
C22_TopKKeepsTheBest ==
  last.op = "candidates" =>
    \A e \in LastIncidents :
      /\ Cardinality(RowsOf(stg_incident_place_candidates, e)) <= cli.top_k
      /\ Cardinality(RowsOf(stg_incident_place_candidates, e)) =
           IF Cardinality(HitPlaces(e)) < cli.top_k
           THEN Cardinality(HitPlaces(e)) ELSE cli.top_k
      /\ \A c \in RowsOf(stg_incident_place_candidates, e) :
           /\ stg_incident_place_candidates[c] = 1
           /\ \A row \in HitPlaces(e) \ StoredPlaces(e) :
                c.score >= SetMax(HitScores(e, cli.use_body, row))

\* candidates were generated with a top-K smaller than the number of places an
\* incident hits: a place was discarded that scores lower than a stored one
C22_Witness ==
  /\ last.op = "candidates"
  /\ \E e \in LastIncidents :
       /\ Cardinality(RowsOf(stg_incident_place_candidates, e)) = cli.top_k
       /\ \E row \in HitPlaces(e) \ StoredPlaces(e) :
            \E c \in RowsOf(stg_incident_place_candidates, e) :
              c.score > SetMax(HitScores(e, cli.use_body, row))

\* C10: generating the candidates of a run again, and resolving its primaries
\* again, on the same incidents and the same gazetteer snapshot gives the same
\* candidate rows and the same primary picks as before, in whatever order the
\* storage returns the gazetteer and incident rows
C10_RerunIdentical ==
  /\ (last.op = "candidates" /\ last.rerun) =>
       of_run(stg_incident_place_candidates, last.run_id) = last.before
  /\ (last.op = "resolve" /\ last.rerun
      /\ <<"candidates", last.run_id>> \in done) =>
       \A m \in primaries(of_run(map_incident_place, last.run_id)) :
         \A b \in last.before :
           m.incident_id = b.incident_id => m.place_id = b.place_id

(***************************************************************************)
(* Specification SpecScore: score_candidate applied to two n-grams at the  *)
(* same admin level and in the same source field                           *)
(***************************************************************************)
\* matched n-grams of one, two and three tokens, as the n-gram loop yields them
MatchedNgrams ==
  { <<"a","t","e">>, <<"i","c","a">>,
    <<"a","t","e"," ","b">>, <<"i","c","a"," ","i","c","a">>,
    <<"a","t","e"," ","i","c","a">>,
    <<"a","t","e"," ","i","c","a"," ","i","c","a">>,
    <<"i","c","a"," ","i","c","a"," ","i","c","a">>,
    <<"i","c","a"," ","a","t","e"," ","b">> }
\* PlaceRow.adm_level
AdmLevels == {1, 2, 3}

InitIdleService ==
  /\ InitIdleGeo
  /\ AZURE_MAPS_KEY = FALSE
  /\ azure_geocoder = NoGeocoder
  /\ resolved = NotResolved

InitScore ==
  /\ InitIdleService
  /\ InitIdleCache
  /\ InitIdlePlaces
  /\ InitIdleCuration
  /\ InitIdleQuality
  /\ InitIdleRate
  /\ InitIdleSingleton
  /\ running = NotRunning
  /\ InitIdleIndex
  /\ \E shorter \in MatchedNgrams, longer \in MatchedNgrams,
        adm_level \in AdmLevels, in_location_text \in BOOLEAN :
       scoring = [shorter |-> shorter, longer |-> longer, adm_level |-> adm_level,
                  in_location_text |-> in_location_text, scores |-> <<>>]

\* score_candidate(shorter, ...) and score_candidate(longer, ...)
ScoreCandidates ==
  /\ scoring.scores = <<>>
  /\ scoring' = [scoring EXCEPT !.scores =
                   <<score_candidate(scoring.shorter, scoring.adm_level,
                                     scoring.in_location_text),
                     score_candidate(scoring.longer, scoring.adm_level,
                                     scoring.in_location_text)>>]
  /\ UNCHANGED <<geoVars, cacheVars, placeVars, curationVars, qualityVars, rateVars, singletonVars, indexVars,
                 running>>

NextScore == ScoreCandidates

SpecScore == InitScore /\ [][NextScore]_vars

\* the number of tokens of a normalised n-gram: one more than its spaces
TokenCount(ng) == Cardinality({i \in 1..Len(ng) : ng[i] = " "}) + 1

\* C11: at the same admin level and in the same source field, a match of more
\* tokens (up to three) never scores lower than a match of fewer tokens
C11_MonotonicInLength ==
  (scoring.scores # <<>> /\ TokenCount(scoring.longer) >= TokenCount(scoring.shorter))
    => scoring.scores[2] >= scoring.scores[1]

\* a 3-token and a 2-token match were scored and the 3-token match scored higher
C11_Witness ==
  /\ scoring.scores # <<>>
  /\ TokenCount(scoring.longer) = 3
  /\ TokenCount(scoring.shorter) = 2
  /\ scoring.scores[2] > scoring.scores[1]

(***************************************************************************)
(* Curation: analyst overrides (src/scripts/import_overrides_from_csv.py,  *)
(* src/scripts/create_curation_schema.py, src/scripts/check_curation_run.py)*)
(* and the fact tables built from them (src/scripts/build_fct_incidents.py,*)
(* src/scripts/build_fct_incidents_curated.py)                             *)
(***************************************************************************)
\* COALESCE(o, f) on a VARCHAR and on a DOUBLE column; NaN is a value, not NULL
coalesce_varchar(o, f) == IF o = None THEN f ELSE o
coalesce_double(o, f) == IF o = FNone THEN f ELSE o

\* the override_* columns of curation_incident_overrides
VarcharOverrideCols ==
  {"override_incident_type", "override_location_text", "override_title",
   "override_body", "override_place_id", "override_adm1", "override_adm2",
   "override_adm3"}
DoubleOverrideCols == {"override_confidence", "override_lat", "override_lon"}
\* o.c IS NOT NULL for some override_* column c
any_override(o) ==
  \/ \E c \in VarcharOverrideCols : o[c] # None
  \/ \E c \in DoubleOverrideCols : o[c] # FNone

\* pd.isna(x) is false for every str of a dtype=str frame; a blank str is empty
_norm_empty(x) == IF strip(x) = <<>> THEN None ELSE x
\* _norm_empty of the incident_id cell, an opaque identifier or the empty string
NoId == "<None>"
norm_incident_id(x) == IF x = "" THEN NoId ELSE x

\* float(v) of a str: whole numbers with an optional sign and "nan" are the
\* numerals that occur here; any other text raises ValueError
is_digits(s) == s # <<>> /\ \A i \in DOMAIN s : s[i] \in DigitSet
RECURSIVE digits_value(_, _)
digits_value(s, acc) ==
  IF s = <<>> THEN acc ELSE digits_value(Tail(s), 10 * acc + (char_code(Head(s)) - 1))
parse_float(t) ==
  CASE t = <<"n", "a", "n">> -> FNaN
    [] is_digits(t) -> Num(digits_value(t, 0))
    [] Len(t) > 1 /\ t[1] = "-" /\ is_digits(Tail(t)) -> Num(0 - digits_value(Tail(t), 0))
    [] OTHER -> FNone
\* to_float: None for an empty cell and for a cell float() rejects
to_float(v) == IF _norm_empty(v) = None THEN FNone ELSE parse_float(strip(v))

\* df["override_review_status"].replace("", "PENDING"), then _norm_empty(...) or "PENDING"
sPENDING == <<"P","E","N","D","I","N","G">>
review_status(v) == IF v = <<>> \/ _norm_empty(v) = None THEN sPENDING ELSE v

\* the parameters of UPSERT_SQL built from one CSV row
override_row(r) ==
  [incident_id |-> norm_incident_id(r.incident_id),
   override_incident_type |-> _norm_empty(r.override_incident_type),
   override_confidence |-> to_float(r.override_confidence),
   override_location_text |-> _norm_empty(r.override_location_text),
   override_place_id |-> _norm_empty(r.override_place_id),
   override_adm1 |-> _norm_empty(r.override_adm1),
   override_adm2 |-> _norm_empty(r.override_adm2),
   override_adm3 |-> _norm_empty(r.override_adm3),
   override_lat |-> to_float(r.override_lat),
   override_lon |-> to_float(r.override_lon),
   override_title |-> _norm_empty(r.override_title),
   override_body |-> _norm_empty(r.override_body),
   review_status |-> review_status(r.override_review_status),
   review_notes |-> _norm_empty(r.override_review_notes)]

\* INSERT INTO curation_incident_overrides ... ON CONFLICT (incident_id) DO UPDATE
upsert_override(table, row) ==
  {o \in table : o.incident_id # row.incident_id} \cup {row}

\* the loop over the CSV rows: a row without incident_id is skipped
RECURSIVE import_overrides_from_csv(_, _)
import_overrides_from_csv(table, rows) ==
  IF rows = <<>> THEN table
  ELSE import_overrides_from_csv(
         IF override_row(Head(rows)).incident_id = NoId THEN table
         ELSE upsert_override(table, override_row(Head(rows))),
         Tail(rows))

\* check_curation_run.main: the number of overrides whose override_place_id is
\* not a place_id of dim_places_pe, and the exit status
ALLOWED ==
  {sPENDING, <<"I","N","_","R","E","V","I","E","W">>,
   <<"A","P","P","R","O","V","E","D">>, <<"R","E","J","E","C","T","E","D">>}
missing_place(overrides) ==
  Cardinality({o \in overrides :
                 /\ o.override_place_id # None
                 /\ ~\E p \in dim_places_pe : p.place_id = o.override_place_id})
check_curation_run(overrides) ==
  IF \E o \in overrides : o.review_status # None /\ o.review_status \notin ALLOWED THEN 2
  ELSE IF missing_place(overrides) # 0 THEN 2
  ELSE 0

\* LEFT JOIN curation_incident_overrides o ON o.incident_id = f.incident_id:
\* the override row of an incident, every column NULL when there is none
NoOverride ==
  [incident_id |-> NoId,
   override_incident_type |-> None, override_confidence |-> FNone,
   override_location_text |-> None, override_place_id |-> None,
   override_adm1 |-> None, override_adm2 |-> None, override_adm3 |-> None,
   override_lat |-> FNone, override_lon |-> FNone,
   override_title |-> None, override_body |-> None,
   review_status |-> None, review_notes |-> None]
left_join(overrides, incident_id) ==
  IF \E o \in overrides : o.incident_id = incident_id
  THEN CHOOSE o \in overrides : o.incident_id = incident_id
  ELSE NoOverride

\* build_fct_incidents: the row selected for a staging row; confidence has no
\* override here, and the timestamps and the source uri are left out
fct_incidents_row(s, o) ==
  [incident_id |-> s.incident_id, ingest_run_id |-> s.ingest_run_id,
   incident_type |-> coalesce_varchar(o.override_incident_type, s.incident_type),
   confidence |-> s.confidence,
   place_id |-> coalesce_varchar(o.override_place_id, s.place_id),
   adm1 |-> coalesce_varchar(o.override_adm1, s.adm1),
   adm2 |-> coalesce_varchar(o.override_adm2, s.adm2),
   adm3 |-> coalesce_varchar(o.override_adm3, s.adm3),
   lat |-> coalesce_double(o.override_lat, s.lat),
   lon |-> coalesce_double(o.override_lon, s.lon)]
\* build_fct_incidents.main: fct_incidents afterwards
build_fct_incidents(fct, staging, overrides, run_id) ==
  {f \in fct : f.ingest_run_id # run_id}
    \cup {fct_incidents_row(s, left_join(overrides, s.incident_id)) :
            s \in {e \in staging : e.ingest_run_id = run_id}}

\* an override that replaces a fact column only when the analyst overrode the place
curated_row_with_place(f, o) ==
  IF o.override_place_id = None THEN f
  ELSE [f EXCEPT !.incident_type = coalesce_varchar(o.override_incident_type, f.incident_type),
                 !.confidence = coalesce_double(o.override_confidence, f.confidence),
                 !.place_id = coalesce_varchar(o.override_place_id, f.place_id),
                 !.adm1 = coalesce_varchar(o.override_adm1, f.adm1),
                 !.adm2 = coalesce_varchar(o.override_adm2, f.adm2),
                 !.adm3 = coalesce_varchar(o.override_adm3, f.adm3),
                 !.lat = coalesce_double(o.override_lat, f.lat),
                 !.lon = coalesce_double(o.override_lon, f.lon)]

\* SELECT f.* REPLACE (COALESCE(o.override_x, f.x) AS x, ...): the mappings whose
\* two columns exist; fct_incidents has no location_text, title or body
curated_row(f, o) ==
  [f EXCEPT !.incident_type = coalesce_varchar(o.override_incident_type, f.incident_type),
            !.confidence = coalesce_double(o.override_confidence, f.confidence),
            !.place_id = coalesce_varchar(o.override_place_id, f.place_id),
            !.adm1 = coalesce_varchar(o.override_adm1, f.adm1),
            !.adm2 = coalesce_varchar(o.override_adm2, f.adm2),
            !.adm3 = coalesce_varchar(o.override_adm3, f.adm3),
            !.lat = coalesce_double(o.override_lat, f.lat),
            !.lon = coalesce_double(o.override_lon, f.lon)]
\* build_fct_incidents_curated.main: fct_incidents_curated afterwards
build_fct_incidents_curated(curated, fct, overrides, run_id) ==
  {c \in curated : c.ingest_run_id # run_id}
    \cup {curated_row(f, left_join(overrides, f.incident_id)) :
            f \in {x \in fct : x.ingest_run_id = run_id}}

\* v_incidents_review_queue: the effective_* columns of a staging row
review_queue_row(e, o) ==
  [incident_id |-> e.incident_id, ingest_run_id |-> e.ingest_run_id,
   effective_incident_type |-> coalesce_varchar(o.override_incident_type, e.incident_type),
   effective_confidence |-> coalesce_double(o.override_confidence, e.confidence),
   effective_location_text |-> coalesce_varchar(o.override_location_text, e.location_text),
   effective_place_id |-> coalesce_varchar(o.override_place_id, e.place_id),
   effective_adm1 |-> coalesce_varchar(o.override_adm1, e.adm1),
   effective_adm2 |-> coalesce_varchar(o.override_adm2, e.adm2),
   effective_adm3 |-> coalesce_varchar(o.override_adm3, e.adm3),
   effective_lat |-> coalesce_double(o.override_lat, e.lat),
   effective_lon |-> coalesce_double(o.override_lon, e.lon)]
v_incidents_review_queue(staging, overrides) ==
  {review_queue_row(e, left_join(overrides, e.incident_id)) : e \in staging}

(***************************************************************************)
(* Run quality metrics (src/scripts/compute_run_quality_metrics.py)        *)
(***************************************************************************)
\* A score is stored in a DOUBLE column. The double nearest to h/100 is
\* h/100 + DoubleError[h + 1] / (100 * 2^59), for h = 0 .. 100
DoubleError ==
  <<0, 12, 24, -64, 48, 160, -128, 384, 96, -192, 320, 32, -256, 256, 768, -320, 192,
    704, -384, 128, 640, -448, 64, 576, -512, 0, 512, 1024, 1536, -1152, -640, -128,
    384, 896, 1408, -1280, -768, -256, 256, 768, 1280, -1408, -896, -384, 128, 640,
    1152, -1536, -1024, -512, 0, 512, 1024, 1536, 2048, 2560, 3072, -2816, -2304,
    -1792, -1280, -768, -256, 256, 768, 1280, 1792, 2304, 2816, -3072, -2560, -2048,
    -1536, -1024, -512, 0, 512, 1024, 1536, 2048, 2560, 3072, -2816, -2304, -1792,
    -1280, -768, -256, 256, 768, 1280, 1792, 2304, 2816, -3072, -2560, -2048, -1536,
    -1024, -512, 0>>

\* a DOUBLE value: h hundredths plus n units of 1 / (100 * 2^59), or NULL / NaN
Double(h) == [null |-> FALSE, h |-> h, n |-> DoubleError[h + 1]]
NullDouble == [null |-> TRUE, h |-> 0, n |-> 0]
\* coalesce(x, y)
coalesce(x, y) == IF x.null THEN y ELSE x
\* x - y on doubles: exact for two scores, NULL / NaN when either side is
fsub(x, y) == [null |-> x.null \/ y.null, h |-> x.h - y.h, n |-> x.n - y.n]
\* x <= y on doubles: false when either side is NaN
fle(x, y) == /\ ~x.null
             /\ ~y.null
             /\ (x.h < y.h \/ (x.h = y.h /\ x.n <= y.n))

\* the rows of a table with their multiplicity, one element per stored row
copies(table) == UNION {{<<r, i>> : i \in 1..table[r]} : r \in DOMAIN table}
\* the scores of the rows of an incident that are numbered after the first by
\* row_number() OVER (PARTITION BY incident_id ORDER BY score DESC)
scores_after_first(table, incident_id) ==
  LET rows == {c \in copies(table) : c[1].incident_id = incident_id}
      first == CHOOSE c \in rows : \A o \in rows : o[1].score <= c[1].score
  IN {c[1].score : c \in rows \ {first}}

\* SELECT incident_id, s1, s2, (s1 - coalesce(s2, 0)) AS gap FROM p
gap_row(table, incident_id) ==
  LET s1 == Double(SetMax({m.score : m \in {x \in DOMAIN table :
                                             x.incident_id = incident_id}}))
      rest == scores_after_first(table, incident_id)
      s2 == IF rest = {} THEN NullDouble ELSE Double(SetMax(rest))
  IN [incident_id |-> incident_id, s1 |-> s1, s2 |-> s2,
      gap |-> fsub(s1, coalesce(s2, Double(0)))]
gap_df(table) == {gap_row(table, id) : id \in {m.incident_id : m \in DOMAIN table}}

\* gap_df[(~gap_df["s2"].isna()) & (gap_df["gap"] <= args.amb_gap)]
amb_df(gaps, amb_gap) == {g \in gaps : ~g.s2.null /\ fle(g.gap, Double(amb_gap))}

\* VARCHAR comparison of two incident ids, which are one letter here
incident_id_order == <<"a", "b">>
incident_before(x, y) ==
  \E i, j \in DOMAIN incident_id_order :
    incident_id_order[i] = x /\ incident_id_order[j] = y /\ i < j

\* ORDER BY score DESC, matched_tokens DESC, place_id ASC
ranked_before(a, b) ==
  \/ a.score > b.score
  \/ a.score = b.score /\ a.matched_tokens > b.matched_tokens
  \/ a.score = b.score /\ a.matched_tokens = b.matched_tokens
     /\ str_less(a.place_id, b.place_id)

\* the orders in which the ranked query can return the rows of the ambiguous
\* incidents: by incident_id, then by the row number inside the incident
rankings(table, amb_ids) ==
  {o \in Orderings({c \in copies(table) : c[1].incident_id \in amb_ids}) :
     \A i, j \in DOMAIN o :
       i < j => /\ ~incident_before(o[j][1].incident_id, o[i][1].incident_id)
                /\ (o[i][1].incident_id = o[j][1].incident_id
                      => ~ranked_before(o[j][1], o[i][1]))}
\* row_number() of the row at position i
rn(o, i) == Cardinality({j \in 1..i : o[j][1].incident_id = o[i][1].incident_id})

\* SELECT * FROM ranked merged with the title of the incident; the staging rows
\* carry no url here
csv_row(m, rn_, staging) ==
  [ingest_run_id |-> m.ingest_run_id, incident_id |-> m.incident_id,
   place_id |-> m.place_id, adm1 |-> m.adm1, adm2 |-> m.adm2, adm3 |-> m.adm3,
   score |-> m.score, method |-> m.method,
   matched_text_norm |-> m.matched_text_norm, matched_tokens |-> m.matched_tokens,
   rn |-> rn_,
   title |-> IF \E e \in staging : e.incident_id = m.incident_id
             THEN (CHOOSE e \in staging : e.incident_id = m.incident_id).title
             ELSE None]
\* ... WHERE rn <= top_k ORDER BY incident_id, rn
RECURSIVE ambiguous_csv(_, _, _, _)
ambiguous_csv(o, i, top_k, staging) ==
  IF i > Len(o) THEN <<>>
  ELSE (IF rn(o, i) <= top_k THEN <<csv_row(o[i][1], rn(o, i), staging)>> ELSE <<>>)
         \o ambiguous_csv(o, i + 1, top_k, staging)

\* TRIM(s): spaces removed at both ends
RECURSIVE trim_left(_)
trim_left(s) == IF s # <<>> /\ Head(s) = " " THEN trim_left(Tail(s)) ELSE s
RECURSIVE trim_right(_)
trim_right(s) ==
  IF s # <<>> /\ s[Len(s)] = " " THEN trim_right(SubSeq(s, 1, Len(s) - 1)) ELSE s
trim(s) == trim_right(trim_left(s))

\* round(100.0 * safe_div(num, den), 2), in hundredths of a percent
pct(num, den) == IF den = 0 THEN 0 ELSE (20000 * num + den) \div (2 * den)

\* the metrics dictionary: counts, and percentages in hundredths of a percent
metrics(run_id, ambiguous_cnt, staging, candidates, map, base, curated, overrides) ==
  LET stg == {e \in staging : e.ingest_run_id = run_id}
      incidents == Cardinality(stg)
      loc_empty == Cardinality({e \in stg : \/ e.location_text = None
                                            \/ trim(e.location_text) = <<>>})
      stg_with_place == Cardinality({e \in stg : e.place_id # None})
      cand_incidents == Cardinality({c.incident_id : c \in DOMAIN of_run(candidates, run_id)})
      overrides_applied ==
        Cardinality({<<f, o>> \in {x \in base : x.ingest_run_id = run_id} \X overrides :
                       /\ o.incident_id = f.incident_id
                       /\ any_override(o)})
  IN [incidents |-> incidents,
      location_text_empty_cnt |-> loc_empty,
      location_text_empty_pct |-> pct(loc_empty, incidents),
      stg_with_place_cnt |-> stg_with_place,
      stg_with_place_pct |-> pct(stg_with_place, incidents),
      geo_candidates_rows |-> BagCardinality(of_run(candidates, run_id)),
      geo_map_rows |-> BagCardinality(of_run(map, run_id)),
      geo_primary_cnt |-> BagCardinality(of_run([m \in primaries(map) |-> map[m]], run_id)),
      geo_incidents_with_candidates_cnt |-> cand_incidents,
      geo_incidents_with_candidates_pct |-> pct(cand_incidents, incidents),
      geo_ambiguous_cnt |-> ambiguous_cnt,
      geo_ambiguous_pct |-> pct(ambiguous_cnt, incidents),
      fact_base_rows |-> Cardinality({f \in base : f.ingest_run_id = run_id}),
      fact_curated_rows |-> Cardinality({f \in curated : f.ingest_run_id = run_id}),
      overrides_applied_cnt |-> overrides_applied,
      overrides_applied_pct |-> pct(overrides_applied, incidents)]

\* INSERT INTO dq_run_metrics ... ON CONFLICT (ingest_run_id, metric_name) DO UPDATE
upsert_metrics(table, run_id, ms) ==
  [k \in DOMAIN table \cup {<<run_id, name>> : name \in DOMAIN ms} |->
     IF k[1] = run_id /\ k[2] \in DOMAIN ms THEN ms[k[2]] ELSE table[k]]

(***************************************************************************)
(* Specification SpecQuality: the candidate pipeline of a run and the      *)
(* quality report computed over its tables at any point                    *)
(***************************************************************************)
\* --amb-gap values tried, in hundredths; 0.05 is the default
AmbGaps == {5, 10}
\* --top-k values tried for the export; 2 is the default
ExportTopKs == {1, 2}

InitQuality == InitPlaces

\* python scripts/compute_run_quality_metrics.py --run-id run_id --amb-gap amb_gap
\*   --top-k top_k
ComputeRunQualityMetrics ==
  \E run_id \in RunIds, amb_gap \in AmbGaps, top_k \in ExportTopKs :
    \E map \in {of_run(map_incident_place, run_id)} :
      \E amb \in {amb_df(gap_df(map), amb_gap)} :
        \E o \in rankings(map, {g.incident_id : g \in amb}) :
          \E ms \in {metrics(run_id, Cardinality(amb), stg_incidents_extracted,
                             stg_incident_place_candidates, map_incident_place,
                             fct_incidents, fct_incidents_curated,
                             curation_incident_overrides)} :
            /\ dq_run_metrics' = upsert_metrics(dq_run_metrics, run_id, ms)
            /\ outputs' =
                 [r \in DOMAIN outputs \cup {run_id} |->
                    IF r = run_id
                    THEN [ambiguous_csv |->
                            ambiguous_csv(o, 1, top_k,
                                          {e \in stg_incidents_extracted :
                                             e.ingest_run_id = run_id}),
                          run_report |-> [amb_gap |-> amb_gap, metrics |-> ms]]
                    ELSE outputs[r]]
            /\ last' = [op |-> "quality", run_id |-> run_id]
            /\ UNCHANGED <<geoVars, cacheVars, scoreVars, curationVars, rateVars, singletonVars, indexVars, running,
                           cli, done,
                           stg_incidents_extracted, stg_incident_place_candidates,
                           map_incident_place, fct_incident_places>>

NextQuality ==
  \/ RunLocationCandidates
  \/ RunGeoResolveIncidents
  \/ BuildFctIncidentPlaces
  \/ ComputeRunQualityMetrics

SpecQuality == InitQuality /\ [][NextQuality]_vars

\* the incidents of the run of the last report that the report flags: those with
\* a row in ambiguous_<run>.csv
Flagged == {r.incident_id : r \in {outputs[last.run_id].ambiguous_csv[i] :
                                     i \in DOMAIN outputs[last.run_id].ambiguous_csv}}
\* the scores of the placements of an incident, best first, as decimal hundredths
BestScore(e) == SetMax({m.score : m \in RowsOf(map_incident_place, e)})
BestCount(e) ==
  BagCardinality([m \in {x \in RowsOf(map_incident_place, e) : x.score = BestScore(e)} |->
                    map_incident_place[m]])
SecondScore(e) ==
  IF BestCount(e) >= 2 THEN BestScore(e)
  ELSE SetMax({m.score : m \in {x \in RowsOf(map_incident_place, e) :
                                  x.score # BestScore(e)}})
HasSecond(e) ==
  BagCardinality([m \in RowsOf(map_incident_place, e) |-> map_incident_place[m]]) >= 2

\* C12: right after a quality report, an incident of the run is in the ambiguous
\* export exactly when it has a second-ranked placement and best score minus
\* second-best score is at most the threshold, the boundary included; the counter
\* geo_ambiguous_cnt counts exactly those incidents
C12_AmbiguousIffGapWithinThreshold ==
  last.op = "quality" =>
    /\ \A e \in LastIncidents :
         e.incident_id \in Flagged
           <=> /\ HasSecond(e)
               /\ BestScore(e) - SecondScore(e) <= outputs[last.run_id].run_report.amb_gap
    /\ outputs[last.run_id].run_report.metrics.geo_ambiguous_cnt
         = Cardinality({e \in LastIncidents :
                          /\ HasSecond(e)
                          /\ BestScore(e) - SecondScore(e)
                               <= outputs[last.run_id].run_report.amb_gap})

(***************************************************************************)
(* Specification SpecCuration: overrides imported from CSV files, checked, *)
(* and the base and curated fact tables built for a run, in any order      *)
(***************************************************************************)
\* the run the fact tables are built for: the one whose incidents are resolved
CurationRuns == {PriorRun}

\* the cells an analyst fills in: a place of the gazetteer, a place id that is
\* not in the gazetteer, a latitude, a text that is no number, or nothing
PlaceCells == {<<>>, <<"0","1","0","3">>, <<"9","9","9","9">>}
LatCells == {<<>>, <<"-","1","2">>, <<"x">>}
IncidentCells == {"a", ""}
csv_cells(incident_id, place_id, lat) ==
  [incident_id |-> incident_id,
   override_incident_type |-> <<>>, override_confidence |-> <<>>,
   override_location_text |-> <<>>, override_place_id |-> place_id,
   override_adm1 |-> <<>>, override_adm2 |-> <<>>, override_adm3 |-> <<>>,
   override_lat |-> lat, override_lon |-> <<>>,
   override_title |-> <<>>, override_body |-> <<>>,
   override_review_status |-> <<>>, override_review_notes |-> <<>>]
\* the CSV files imported: one data row each
CsvFiles ==
  {<<csv_cells(i, p, l)>> : i \in IncidentCells, p \in PlaceCells, l \in LatCells}

\* the pipeline ran for PriorRun, the extraction for run r1; no override yet
InitCuration ==
  /\ InitIdleService
  /\ InitIdleCache
  /\ cli = [top_k |-> 10, use_body |-> FALSE]
  /\ \E t \in IncidentTexts :
       stg_incidents_extracted = update_staging(Staging(t), PriorMap, PriorRun)
  /\ stg_incident_place_candidates = PriorCandidates
  /\ map_incident_place = PriorMap
  /\ fct_incident_places = PriorFct
  /\ last = NoStep
  /\ done = {}
  /\ InitIdleOther

\* python scripts/import_overrides_from_csv.py --csv csv
ImportOverridesFromCsv ==
  \E csv \in CsvFiles :
    /\ curation_incident_overrides' =
         import_overrides_from_csv(curation_incident_overrides, csv)
    /\ returned' = [script |-> "import_overrides_from_csv", code |-> 0]
    /\ last' = [op |-> "import", run_id |-> ""]
    /\ UNCHANGED <<geoVars, cacheVars, scoreVars, qualityVars, rateVars, singletonVars, indexVars, running,
                   cli, done,
                   stg_incidents_extracted, stg_incident_place_candidates,
                   map_incident_place, fct_incident_places, fct_incidents,
                   fct_incidents_curated>>

\* python scripts/check_curation_run.py --run-id run_id
CheckCurationRun ==
  \E run_id \in CurationRuns :
    /\ returned' = [script |-> "check_curation_run",
                    code |-> check_curation_run(curation_incident_overrides)]
    /\ last' = [op |-> "check", run_id |-> run_id]
    /\ UNCHANGED <<geoVars, cacheVars, scoreVars, qualityVars, rateVars, singletonVars, indexVars, running,
                   cli, done,
                   stg_incidents_extracted, stg_incident_place_candidates,
                   map_incident_place, fct_incident_places, fct_incidents,
                   curation_incident_overrides, fct_incidents_curated>>

\* python scripts/build_fct_incidents.py --run-id run_id
BuildFctIncidents ==
  \E run_id \in CurationRuns :
    /\ fct_incidents' = build_fct_incidents(fct_incidents, stg_incidents_extracted,
                                            curation_incident_overrides, run_id)
    /\ returned' = [script |-> "build_fct_incidents", code |-> 0]
    /\ last' = [op |-> "base", run_id |-> run_id]
    /\ UNCHANGED <<geoVars, cacheVars, scoreVars, qualityVars, rateVars, singletonVars, indexVars, running,
                   cli, done,
                   stg_incidents_extracted, stg_incident_place_candidates,
                   map_incident_place, fct_incident_places,
                   curation_incident_overrides, fct_incidents_curated>>

\* python scripts/build_fct_incidents_curated.py --run-id run_id
BuildFctIncidentsCurated ==
  \E run_id \in CurationRuns :
    /\ fct_incidents_curated' =
         build_fct_incidents_curated(fct_incidents_curated, fct_incidents,
                                     curation_incident_overrides, run_id)
    /\ returned' = [script |-> "build_fct_incidents_curated", code |-> 0]
    /\ last' = [op |-> "curated", run_id |-> run_id]
    /\ UNCHANGED <<geoVars, cacheVars, scoreVars, qualityVars, rateVars, singletonVars, indexVars, running,
                   cli, done,
                   stg_incidents_extracted, stg_incident_place_candidates,
                   map_incident_place, fct_incident_places, fct_incidents,
                   curation_incident_overrides>>

NextCuration ==
  \/ ImportOverridesFromCsv
  \/ CheckCurationRun
  \/ BuildFctIncidents
  \/ BuildFctIncidentsCurated

SpecCuration == InitCuration /\ [][NextCuration]_vars

\* the overridable columns of the fact tables with their override column, and
\* the same for the effective_* columns of the review queue
VarcharMappings ==
  {<<"incident_type", "override_incident_type", "effective_incident_type">>,
   <<"place_id", "override_place_id", "effective_place_id">>,
   <<"adm1", "override_adm1", "effective_adm1">>,
   <<"adm2", "override_adm2", "effective_adm2">>,
   <<"adm3", "override_adm3", "effective_adm3">>}
DoubleMappings ==
  {<<"confidence", "override_confidence", "effective_confidence">>,
   <<"lat", "override_lat", "effective_lat">>,
   <<"lon", "override_lon", "effective_lon">>}
\* the override rows of an incident
OverridesOf(incident_id) ==
  {o \in curation_incident_overrides : o.incident_id = incident_id}
\* the value the rule gives a field: the override's when there is an override row
\* whose field is not null, the resolved one otherwise
Effective(base, incident_id, col, ocol, null) ==
  IF \E o \in OverridesOf(incident_id) : o[ocol] # null
  THEN (CHOOSE o \in OverridesOf(incident_id) : o[ocol] # null)[ocol]
  ELSE base[col]
\* a row carries the effective value of every mapped field of a resolved row
IsEffective(row, base, k) ==
  /\ \A mp \in VarcharMappings :
       row[mp[k]] = Effective(base, base.incident_id, mp[1], mp[2], None)
  /\ \A mp \in DoubleMappings :
       row[mp[k]] = Effective(base, base.incident_id, mp[1], mp[2], FNone)
BaseRows == {f \in fct_incidents : f.ingest_run_id = last.run_id}
CuratedRows == {c \in fct_incidents_curated : c.ingest_run_id = last.run_id}

C14_OverridePlaceInGazetteer ==
  \A o \in curation_incident_overrides :
    o.override_place_id # None =>
      \E p \in dim_places_pe : p.place_id = o.override_place_id

(***************************************************************************)
(* Specification SpecComas: the candidate pipeline on a database whose     *)
(* gazetteer holds the district Comas and whose run has one incident,      *)
(* titled "Balacera en Comas deja dos heridos", with no location text      *)
(***************************************************************************)
sComas == <<"C","o","m","a","s">>
sComasLimaLima == <<"C","o","m","a","s",","," ","L","i","m","a",","," ","L","i","m","a">>
sLimaLimaLima == <<"L","i","m","a",","," ","L","i","m","a",","," ","L","i","m","a">>
sLimaName == <<"L","i","m","a">>
sBalacera ==
  <<"B","a","l","a","c","e","r","a"," ","e","n"," ","C","o","m","a","s"," ","d","e","j","a"," ","d","o","s"," ","h","e","r","i","d","o","s">>
sDosHeridos == <<"d","o","s"," ","h","e","r","i","d","o","s">>
sComasKey == <<"c","o","m","a","s">>

\* dim_places_pe of this database: the districts Comas and Lima of the province
\* Lima, region Lima, as build_peru_gazetteer writes them
ComasPlaces ==
  { [place_id |-> <<"1","5","0","1","1","0">>, display_name |-> sComasLimaLima,
     search_name |-> lower(sComasLimaLima),
     adm1_name |-> sLimaName, adm2_name |-> sLimaName, adm3_name |-> sComas,
     lat |-> Num(-11), lon |-> Num(-77)],
    [place_id |-> <<"1","5","0","1","0","1">>, display_name |-> sLimaLimaLima,
     search_name |-> lower(sLimaLimaLima),
     adm1_name |-> sLimaName, adm2_name |-> sLimaName, adm3_name |-> sLimaName,
     lat |-> Num(-12), lon |-> Num(-77)] }
ComasPlace == CHOOSE row \in ComasPlaces : row.adm3_name = sComas

\* an empty location_text: NULL, the empty string, or blanks
EmptyLocationTexts == {None, <<>>, <<" ">>}
\* the body of the article, which names no place
ComasBodies == {None, sDosHeridos}

\* the extraction step ran for run r1; no candidate script has run
InitComas ==
  /\ InitIdleService
  /\ InitIdleCache
  /\ cli \in [top_k : TopKs, use_body : BOOLEAN]
  /\ \E location_text \in EmptyLocationTexts, body \in ComasBodies :
       stg_incidents_extracted = {staging_row("r1", "a", sBalacera, body, location_text)}
  /\ stg_incident_place_candidates = EmptyBag
  /\ map_incident_place = EmptyBag
  /\ fct_incident_places = EmptyBag
  /\ last = NoStep
  /\ done = {}
  /\ InitIdleOther

\* python scripts/run_location_candidates.py --run-id run_id, on this database
RunLocationCandidatesComas ==
  \E run_id \in RunIds :
    \E place_rows \in Orderings({row \in ComasPlaces : place_name(row) # None}) :
      \E inc_rows \in Orderings({e \in stg_incidents_extracted :
                                   e.ingest_run_id = run_id}) :
        \E table \in {run_location_candidates(stg_incident_place_candidates, run_id,
                                              cli.top_k, cli.use_body,
                                              build_place_index(place_rows),
                                              inc_rows)} :
          /\ stg_incident_place_candidates' = table
          /\ last' = [op |-> "candidates", run_id |-> run_id,
                      rerun |-> <<"candidates", run_id>> \in done,
                      before |-> of_run(stg_incident_place_candidates, run_id)]
          /\ done' = done \cup {<<"candidates", run_id>>}
          /\ UNCHANGED <<geoVars, cacheVars, otherVars, cli, stg_incidents_extracted,
                         map_incident_place, fct_incident_places>>

NextComas ==
  \/ RunLocationCandidatesComas
  \/ RunGeoResolveIncidents
  \/ BuildFctIncidentPlaces

SpecComas == InitComas /\ [][NextComas]_vars

C16_ConfigurationErrorsAreFatal ==
  HasReturned => (Len(gazetteer) > 0 /\ AZURE_MAPS_KEY)

\* C17: when upstream supplied both parts of a coordinate and no state from
\* specific to region fires, geocode_incident returns that coordinate with the
\* level estimado; it returns the level None only when no coordinate was supplied
C17_EstimatedWheneverSupplied ==
  (HasReturned /\ ~HasNaNText(incident)) =>
    /\ (SuppliedCoordinate(incident)
          /\ FirstState(gazetteer, incident, resolved.api) = "estimado")
         => /\ resolved.ret.nivel_geo = "estimado"
            /\ resolved.ret.lat = incident.llm_lat
            /\ resolved.ret.lon = incident.llm_lon
    /\ resolved.ret.nivel_geo = "None" => ~SuppliedCoordinate(incident)

(***************************************************************************)
(* Specification SpecRetry: geocode_address of one client called for an    *)
(* address, the API answering the requests of a call in any way            *)
(***************************************************************************)
\* the answers the API has ready for one call: one more than the loop may ask for
ScriptLen == AZURE_MAPS_MAX_RETRIES + 2
RetryResponses == {Timeout, Http429, HttpError, Ok(ApiP1)}
RetryScripts == [1..ScriptLen -> RetryResponses]

\* get_azure_geocoder() created the client, with or without a key
InitRetry ==
  /\ InitIdleGeo
  /\ AZURE_MAPS_KEY \in BOOLEAN
  /\ azure_geocoder = AzureMapsGeocoder(AZURE_MAPS_KEY)
  /\ resolved = NotResolved
  /\ InitIdleCache
  /\ InitIdlePlaces
  /\ InitIdleOther

\* geocoder.geocode_address(address, departamento)
GeocodeAddress ==
  \E script \in RetryScripts :
    \E az \in {geocode_address(azure_geocoder, incident.ubicacion_especifica,
                               incident.departamento, script)} :
      /\ resolved' = [op |-> "address", script |-> script,
                      ret |-> Outcome(Returned(az.result.lat, az.result.lon,
                                               az.result.nivel, None, az.geocoder,
                                               az.requests)),
                      rows |-> <<>>, api |-> az.result]
      /\ azure_geocoder' = az.geocoder
      /\ UNCHANGED <<gazetteer, AZURE_MAPS_AVAILABLE, AZURE_MAPS_KEY, incident,
                     cacheVars, placeVars, otherVars>>

NextRetry == GeocodeAddress

SpecRetry == InitRetry /\ [][NextRetry]_vars

\* the requests the last geocode_address call issued, as the answers they got
Requests == resolved.ret.requests

\* C18: a geocode_address call issues at most AZURE_MAPS_MAX_RETRIES + 1 = 3
\* requests, each one but the first after a timeout or a 429 of the one before,
\* and a call whose last permitted request timed out or got a 429 returns None
C18_AtMostThreeRequests ==
  resolved.op = "address" =>
    /\ Len(Requests) <= AZURE_MAPS_MAX_RETRIES + 1
    /\ \A i \in 1..(Len(Requests) - 1) : Requests[i] \in Retryable
    /\ (Len(Requests) = AZURE_MAPS_MAX_RETRIES + 1
          /\ Requests[Len(Requests)] \in Retryable) => resolved.api = NoGeocode

\* a timeout, a 429 and a timeout used up the budget and the call returned None
C18_Witness ==
  /\ resolved.op = "address"
  /\ Requests = <<Timeout, Http429, Timeout>>
  /\ resolved.api = NoGeocode

\* C19: an HTTP error other than 429 is answered by no further request: it is the
\* last request of the call, and the call returns None
C19_NoRetryOnHttpError ==
  resolved.op = "address" =>
    \A i \in 1..Len(Requests) :
      Requests[i] = HttpError => (i = Len(Requests) /\ resolved.api = NoGeocode)

\* a timeout, then an HTTP error on the second attempt: two requests, no third
C19_Witness ==
  /\ resolved.op = "address"
  /\ Requests = <<Timeout, HttpError>>
  /\ resolved.script[3] = Ok(ApiP1)
  /\ resolved.api = NoGeocode

(***************************************************************************)
(* Specification SpecRate: worker threads that share one AzureMapsGeocoder *)
(* and call geocode_address for addresses that are not cached; the steps   *)
(* of _rate_limit of different threads interleave, and time passes         *)
(***************************************************************************)
\* RATE_LIMIT_DELAY = 0.02 s, in milliseconds
RATE_LIMIT_DELAY == 20
\* the worker threads
Workers == {1, 2}
\* the clock advances in steps of TickMs; the first call comes at StartTime, long
\* after the epoch last_request_time starts at; the run is cut off at MaxTime
TickMs == 10
StartTime == 100
MaxTime == 150
\* most requests the workers send in a run
MaxRequests == 3

Idle == [pc |-> "idle", elapsed |-> 0, wake |-> 0]

\* the client was created, with a key; no thread is inside geocode_address
InitRate ==
  /\ InitIdleGeo
  /\ AZURE_MAPS_KEY = TRUE
  /\ azure_geocoder = AzureMapsGeocoder(TRUE)
  /\ resolved = NotResolved
  /\ InitIdleCache
  /\ InitIdlePlaces
  /\ InitIdleScore
  /\ InitIdleCuration
  /\ InitIdleQuality
  /\ InitIdleSingleton
  /\ running = NotRunning
  /\ InitIdleIndex
  /\ now = StartTime
  /\ last_request_time = 0
  /\ worker = [w \in Workers |-> Idle]
  /\ request_starts = <<>>

RateUnchanged == UNCHANGED <<geoVars, cacheVars, placeVars, scoreVars, curationVars,
                             qualityVars, singletonVars, indexVars, running>>

\* time passes
Tick ==
  /\ now + TickMs <= MaxTime
  /\ now' = now + TickMs
  /\ UNCHANGED <<last_request_time, worker, request_starts>>
  /\ RateUnchanged

\* a thread enters geocode_address with a key and reaches self._rate_limit()
CallGeocodeAddress(w) ==
  /\ worker[w].pc = "idle"
  /\ Len(request_starts) + Cardinality({v \in Workers : worker[v].pc # "idle"})
       < MaxRequests
  /\ worker' = [worker EXCEPT ![w].pc = "elapsed"]
  /\ UNCHANGED <<now, last_request_time, request_starts>>
  /\ RateUnchanged

\* elapsed = time.time() - self.last_request_time
ReadElapsed(w) ==
  /\ worker[w].pc = "elapsed"
  /\ worker' = [worker EXCEPT ![w] = [pc |-> "compare",
                                      elapsed |-> now - last_request_time,
                                      wake |-> 0]]
  /\ UNCHANGED <<now, last_request_time, request_starts>>
  /\ RateUnchanged

\* if elapsed < RATE_LIMIT_DELAY: time.sleep(RATE_LIMIT_DELAY - elapsed)
Compare(w) ==
  /\ worker[w].pc = "compare"
  /\ worker' = [worker EXCEPT ![w] =
                  IF worker[w].elapsed < RATE_LIMIT_DELAY
                  THEN [pc |-> "sleep", elapsed |-> worker[w].elapsed,
                        wake |-> now + (RATE_LIMIT_DELAY - worker[w].elapsed)]
                  ELSE [pc |-> "store", elapsed |-> worker[w].elapsed, wake |-> 0]]
  /\ UNCHANGED <<now, last_request_time, request_starts>>
  /\ RateUnchanged

\* time.sleep returns once the time asked for has passed
Wake(w) ==
  /\ worker[w].pc = "sleep"
  /\ now >= worker[w].wake
  /\ worker' = [worker EXCEPT ![w].pc = "store"]
  /\ UNCHANGED <<now, last_request_time, request_starts>>
  /\ RateUnchanged

\* self.last_request_time = time.time()
StoreTime(w) ==
  /\ worker[w].pc = "store"
  /\ last_request_time' = now
  /\ worker' = [worker EXCEPT ![w].pc = "request"]
  /\ UNCHANGED <<now, request_starts>>
  /\ RateUnchanged

\* requests.get(...): the first request of the call is sent, and the call goes on
\* to its answer (SpecRetry)
SendRequest(w) ==
  /\ worker[w].pc = "request"
  /\ request_starts' = Append(request_starts, [worker |-> w, at |-> now])
  /\ worker' = [worker EXCEPT ![w] = Idle]
  /\ UNCHANGED <<now, last_request_time>>
  /\ RateUnchanged

NextRate ==
  \/ Tick
  \/ \E w \in Workers : CallGeocodeAddress(w)
  \/ \E w \in Workers : ReadElapsed(w)
  \/ \E w \in Workers : Compare(w)
  \/ \E w \in Workers : Wake(w)
  \/ \E w \in Workers : StoreTime(w)
  \/ \E w \in Workers : SendRequest(w)

SpecRate == InitRate /\ [][NextRate]_vars

\* C20: any two requests sent to the API start at least RATE_LIMIT_DELAY apart
C20_MinimumDelayBetweenRequests ==
  \A i, j \in 1..Len(request_starts) :
    i < j => request_starts[j].at - request_starts[i].at >= RATE_LIMIT_DELAY

(***************************************************************************)
(* Specification SpecSingleton: threads that call geocode_address_azure    *)
(* at the same time; the steps of get_azure_geocoder and of the lru_cache  *)
(* wrapper around geocode_address interleave                               *)
(***************************************************************************)
\* the threads, the addresses they ask for, and the calls a run makes at most
Threads == {1, 2}
Addresses == {"larco", "brasil"}
MaxCalls == 3

NotCalling == [pc |-> "idle", address |-> "", geocoder |-> 0]

\* the key lru_cache builds from the arguments: self is part of it
cache_key(geocoder, address) == <<geocoder, address>>

InitSingleton ==
  /\ InitIdleGeo
  /\ AZURE_MAPS_KEY = TRUE
  /\ azure_geocoder = NoGeocoder
  /\ resolved = NotResolved
  /\ InitIdleCache
  /\ InitIdlePlaces
  /\ InitIdleScore
  /\ InitIdleCuration
  /\ InitIdleQuality
  /\ InitIdleRate
  /\ running = NotRunning
  /\ InitIdleIndex
  /\ singleton = 0
  /\ clients = 0
  /\ lru = {}
  /\ thread = [t \in Threads |-> NotCalling]
  /\ api_calls = <<>>

SingletonUnchanged == UNCHANGED <<geoVars, cacheVars, placeVars, scoreVars, curationVars,
                                  qualityVars, rateVars, running, indexVars>>

\* geocode_address_azure(address, ...) is entered
CallGeocodeAddressAzure(t, address) ==
  /\ thread[t].pc = "idle"
  /\ Len(api_calls) + Cardinality({u \in Threads : thread[u].pc # "idle"}) < MaxCalls
  /\ thread' = [thread EXCEPT ![t] = [pc |-> "test", address |-> address, geocoder |-> 0]]
  /\ UNCHANGED <<singleton, clients, lru, api_calls>>
  /\ SingletonUnchanged

\* if _azure_geocoder is None:
TestSingleton(t) ==
  /\ thread[t].pc = "test"
  /\ thread' = [thread EXCEPT ![t].pc = IF singleton = 0 THEN "create" ELSE "return"]
  /\ UNCHANGED <<singleton, clients, lru, api_calls>>
  /\ SingletonUnchanged

\* _azure_geocoder = AzureMapsGeocoder()
CreateSingleton(t) ==
  /\ thread[t].pc = "create"
  /\ clients' = clients + 1
  /\ singleton' = clients + 1
  /\ thread' = [thread EXCEPT ![t].pc = "return"]
  /\ UNCHANGED <<lru, api_calls>>
  /\ SingletonUnchanged

\* return _azure_geocoder, and the lookup of the lru_cache wrapper: a hit returns
\* the stored result, a miss goes on to the wrapped function
CacheLookup(t) ==
  /\ thread[t].pc = "return"
  /\ thread' = [thread EXCEPT ![t] =
                  IF cache_key(singleton, thread[t].address) \in lru
                  THEN NotCalling
                  ELSE [pc |-> "miss", address |-> thread[t].address,
                        geocoder |-> singleton]]
  /\ UNCHANGED <<singleton, clients, lru, api_calls>>
  /\ SingletonUnchanged

\* the wrapped geocode_address runs and asks the API
AskApi(t) ==
  /\ thread[t].pc = "miss"
  /\ api_calls' = Append(api_calls, [geocoder |-> thread[t].geocoder,
                                     address |-> thread[t].address])
  /\ thread' = [thread EXCEPT ![t].pc = "fill"]
  /\ UNCHANGED <<singleton, clients, lru>>
  /\ SingletonUnchanged

\* the wrapper stores the result under the key, unless it is there by now
CacheFill(t) ==
  /\ thread[t].pc = "fill"
  /\ lru' = lru \cup {cache_key(thread[t].geocoder, thread[t].address)}
  /\ thread' = [thread EXCEPT ![t] = NotCalling]
  /\ UNCHANGED <<singleton, clients, api_calls>>
  /\ SingletonUnchanged

NextSingleton ==
  \/ \E t \in Threads, address \in Addresses : CallGeocodeAddressAzure(t, address)
  \/ \E t \in Threads : TestSingleton(t)
  \/ \E t \in Threads : CreateSingleton(t)
  \/ \E t \in Threads : CacheLookup(t)
  \/ \E t \in Threads : AskApi(t)
  \/ \E t \in Threads : CacheFill(t)

SpecSingleton == InitSingleton /\ [][NextSingleton]_vars

ApiCallsFor(address) == {i \in 1..Len(api_calls) : api_calls[i].address = address}

\* C21: the threads use one client and one cache, and the API is asked once for
\* each address, however the threads interleave
C21_OneClientOneCallPerAddress ==
  /\ clients <= 1
  /\ \A address \in Addresses : Cardinality(ApiCallsFor(address)) <= 1

(***************************************************************************)
(* Specification SpecInterrupt: run_location_candidates one statement at a *)
(* time. The script opens no transaction, so the connection commits each   *)
(* con.execute as it returns; the script can fail or be cancelled between  *)
(* any two statements, and `finally: con.close()` undoes nothing           *)
(***************************************************************************)
InitInterrupt ==
  /\ InitIdleGeo
  /\ AZURE_MAPS_KEY = FALSE
  /\ azure_geocoder = NoGeocoder
  /\ resolved = NotResolved
  /\ InitIdleCache
  /\ cli \in [top_k : TopKs, use_body : BOOLEAN]
  /\ \E t \in IncidentTexts :
       stg_incidents_extracted = update_staging(Staging(t), PriorMap, PriorRun)
  /\ stg_incident_place_candidates = PriorCandidates
  /\ map_incident_place = PriorMap
  /\ fct_incident_places = PriorFct
  /\ last = NoStep
  /\ done = {}
  /\ InitIdleScore
  /\ InitIdleCuration
  /\ InitIdleQuality
  /\ InitIdleRate
  /\ InitIdleSingleton
  /\ running = NotRunning
  /\ InitIdleIndex

InterruptUnchanged ==
  UNCHANGED <<geoVars, cacheVars, scoreVars, curationVars, qualityVars, rateVars,
              singletonVars, indexVars, cli, stg_incidents_extracted, map_incident_place,
              fct_incident_places, last, done>>

\* the script starts: DELETE FROM stg_incident_place_candidates WHERE
\* ingest_run_id = ?, then the index and the incidents are read
DeleteCandidates ==
  /\ running.pc = "idle"
  /\ \E run_id \in RunIds :
       \E place_rows \in Orderings({row \in dim_places_pe : place_name(row) # None}) :
         \E inc_rows \in Orderings({e \in stg_incidents_extracted :
                                      e.ingest_run_id = run_id}) :
           /\ stg_incident_place_candidates' =
                delete_run(stg_incident_place_candidates, run_id)
           /\ running' = [pc |-> "insert", run_id |-> run_id, ended |-> "not yet",
                          before |-> of_run(stg_incident_place_candidates, run_id),
                          rows |-> inserted_rows(PlaceIndexes[place_rows], run_id,
                                                 cli.top_k, cli.use_body, inc_rows),
                          inserted |-> 0]
  /\ InterruptUnchanged

\* one INSERT INTO stg_incident_place_candidates ... VALUES (...)
InsertCandidate ==
  /\ running.pc = "insert"
  /\ running.inserted < Len(running.rows)
  /\ stg_incident_place_candidates' =
       stg_incident_place_candidates
         (+) rows_to_bag(<<running.rows[running.inserted + 1]>>)
  /\ running' = [running EXCEPT !.inserted = running.inserted + 1]
  /\ InterruptUnchanged

\* the loop is over: return 0
ReturnFromCandidates ==
  /\ running.pc = "insert"
  /\ running.inserted = Len(running.rows)
  /\ running' = [running EXCEPT !.pc = "idle", !.ended = "returned"]
  /\ UNCHANGED stg_incident_place_candidates
  /\ InterruptUnchanged

\* an exception or a cancellation ends the script where it is
FailCandidates ==
  /\ running.pc = "insert"
  /\ running' = [running EXCEPT !.pc = "idle", !.ended = "failed"]
  /\ UNCHANGED stg_incident_place_candidates
  /\ InterruptUnchanged

NextInterrupt ==
  \/ DeleteCandidates
  \/ InsertCandidate
  \/ ReturnFromCandidates
  \/ FailCandidates

SpecInterrupt == InitInterrupt /\ [][NextInterrupt]_vars

\* C23: once run_location_candidates for a run has ended, by returning, failing or
\* being cancelled at any point, the candidate rows of the run are the complete set
\* from before the run or the complete newly computed set
C23_NeverPartialCandidates ==
  running.ended \in {"returned", "failed"} =>
    \/ of_run(stg_incident_place_candidates, running.run_id) = running.before
    \/ of_run(stg_incident_place_candidates, running.run_id) = rows_to_bag(running.rows)

(***************************************************************************)
(* Specification SpecBody: the candidate pipeline for a run with two       *)
(* incidents that have the same title and location_text and different      *)
(* bodies                                                                  *)
(***************************************************************************)
\* the title and location_text the two incidents share, and their bodies
SharedTexts ==
  { [title |-> sAte, location_text |-> None],
    [title |-> sGam, location_text |-> sAteSp] }
BodyPairs ==
  { <<sAteIcaIca, None>>, <<sIcaDisplay, sAteBIloIlo>> }
BodyTopKs == {2, 10}

InitBody ==
  /\ InitIdleGeo
  /\ AZURE_MAPS_KEY = FALSE
  /\ azure_geocoder = NoGeocoder
  /\ resolved = NotResolved
  /\ InitIdleCache
  /\ cli \in [top_k : BodyTopKs, use_body : BOOLEAN]
  /\ \E t \in SharedTexts, bodies \in BodyPairs :
       stg_incidents_extracted =
         update_staging({ staging_row("r1", "a", t.title, bodies[1], t.location_text),
                          staging_row("r1", "b", t.title, bodies[2], t.location_text),
                          staging_row(PriorRun, "a", sIcaDisplay, None, None) },
                        PriorMap, PriorRun)
  /\ stg_incident_place_candidates = PriorCandidates
  /\ map_incident_place = PriorMap
  /\ fct_incident_places = PriorFct
  /\ last = NoStep
  /\ done = {}
  /\ InitIdleOther

NextBody == RunLocationCandidates \/ RunGeoResolveIncidents \/ BuildFctIncidentPlaces

SpecBody == InitBody /\ [][NextBody]_vars

\* a candidate row without the incident it belongs to
WithoutIncident(c) == [f \in DOMAIN c \ {"incident_id"} |-> c[f]]
CandidateSet(e) == {WithoutIncident(c) : c \in RowsOf(stg_incident_place_candidates, e)}
BodyTags == {"ngram_1_body", "ngram_2_body", "ngram_3_body"}

\* C24: after run_location_candidates without --use-body, two incidents of the run
\* with the same title and location_text have the same candidates whatever their
\* bodies are, and no candidate of the run carries a body method tag
C24_BodyIgnoredUnlessEnabled ==
  (last.op = "candidates" /\ ~cli.use_body) =>
    /\ \A e, o \in LastIncidents :
         (e.title = o.title /\ e.location_text = o.location_text) =>
           CandidateSet(e) = CandidateSet(o)
    /\ \A c \in DOMAIN stg_incident_place_candidates :
         c.ingest_run_id = last.run_id => c.method \notin BodyTags

\* candidates were generated without --use-body for two incidents whose bodies
\* differ, one of them naming a place the shared title and location_text do not
C24_Witness ==
  /\ last.op = "candidates"
  /\ ~cli.use_body
  /\ \E e, o \in LastIncidents :
       /\ e.title = o.title
       /\ e.location_text = o.location_text
       /\ e.body # o.body
       /\ CandidateSet(e) # {}
       /\ \E row \in dim_places_pe :
            /\ HitScores(e, TRUE, row) # {}
            /\ HitScores(e, FALSE, row) = {}
            /\ HitScores(o, TRUE, row) = {}

(***************************************************************************)
(* Specification SpecWarehouse: the per-run builders and the override      *)
(* import on one warehouse that holds two runs, in any order               *)
(***************************************************************************)
WarehouseRuns == {PriorRun, "r1"}
\* the override an analyst imports: a place for incident a
WarehouseCsvFiles == {<<csv_cells("a", <<"0","1","0","3">>, <<"-","1","2">>)>>}

\* the extraction ran for both runs, the candidate pipeline for PriorRun, the base
\* facts were built for both runs and the curated facts for PriorRun
InitWarehouse ==
  /\ InitIdleService
  /\ InitIdleCache
  /\ cli = [top_k |-> 10, use_body |-> FALSE]
  /\ \E t \in IncidentTexts :
       /\ stg_incidents_extracted = update_staging(Staging(t), PriorMap, PriorRun)
       /\ fct_incidents =
            build_fct_incidents(
              build_fct_incidents({}, update_staging(Staging(t), PriorMap, PriorRun),
                                  {}, PriorRun),
              update_staging(Staging(t), PriorMap, PriorRun), {}, "r1")
  /\ stg_incident_place_candidates = PriorCandidates
  /\ map_incident_place = PriorMap
  /\ fct_incident_places = PriorFct
  /\ curation_incident_overrides = {}
  /\ fct_incidents_curated = build_fct_incidents_curated({}, fct_incidents, {}, PriorRun)
  /\ returned = NoReturn
  /\ last = NoStep
  /\ done = {}
  /\ InitIdleScore
  /\ InitIdleQuality
  /\ InitIdleRate
  /\ InitIdleSingleton
  /\ running = NotRunning
  /\ InitIdleIndex

WarehouseUnchanged ==
  UNCHANGED <<geoVars, cacheVars, scoreVars, qualityVars, rateVars, singletonVars, indexVars,
              running, cli, done, returned, fct_incidents>>

\* python scripts/run_location_candidates.py --run-id run_id
GenerateCandidates(run_id) ==
  /\ \E place_rows \in Orderings({row \in dim_places_pe : place_name(row) # None}) :
       \E inc_rows \in Orderings({e \in stg_incidents_extracted :
                                    e.ingest_run_id = run_id}) :
         stg_incident_place_candidates' =
           run_location_candidates(stg_incident_place_candidates, run_id, cli.top_k,
                                   cli.use_body, PlaceIndexes[place_rows], inc_rows)
  /\ last' = [op |-> "candidates", run_id |-> run_id]
  /\ UNCHANGED <<stg_incidents_extracted, map_incident_place, fct_incident_places,
                 curation_incident_overrides, fct_incidents_curated>>
  /\ WarehouseUnchanged

\* python scripts/run_geo_resolve_incidents.py --run-id run_id
ResolveIncidents(run_id) ==
  /\ \E pick \in row_numberings(of_run(stg_incident_place_candidates, run_id)) :
       \E map \in {run_geo_resolve_incidents(map_incident_place,
                                             stg_incident_place_candidates,
                                             run_id, pick)} :
         /\ map_incident_place' = map
         /\ stg_incidents_extracted' = update_staging(stg_incidents_extracted, map, run_id)
  /\ last' = [op |-> "resolve", run_id |-> run_id]
  /\ UNCHANGED <<stg_incident_place_candidates, fct_incident_places,
                 curation_incident_overrides, fct_incidents_curated>>
  /\ WarehouseUnchanged

\* python scripts/build_fct_incident_places.py --run-id run_id
BuildIncidentPlaces(run_id) ==
  /\ fct_incident_places' =
       build_fct_incident_places(fct_incident_places, map_incident_place, run_id)
  /\ last' = [op |-> "fct", run_id |-> run_id]
  /\ UNCHANGED <<stg_incidents_extracted, stg_incident_place_candidates,
                 map_incident_place, curation_incident_overrides,
                 fct_incidents_curated>>
  /\ WarehouseUnchanged

\* a curated build that also empties the candidates of its run
BuildCuratedPurgingCandidates(run_id) ==
  /\ fct_incidents_curated' =
       build_fct_incidents_curated(fct_incidents_curated, fct_incidents,
                                   curation_incident_overrides, run_id)
  /\ stg_incident_place_candidates' = delete_run(stg_incident_place_candidates, run_id)
  /\ last' = [op |-> "curated", run_id |-> run_id]
  /\ UNCHANGED <<stg_incidents_extracted, map_incident_place, fct_incident_places,
                 curation_incident_overrides>>
  /\ WarehouseUnchanged

\* python scripts/build_fct_incidents_curated.py --run-id run_id
BuildCurated(run_id) ==
  /\ fct_incidents_curated' =
       build_fct_incidents_curated(fct_incidents_curated, fct_incidents,
                                   curation_incident_overrides, run_id)
  /\ last' = [op |-> "curated", run_id |-> run_id]
  /\ UNCHANGED <<stg_incidents_extracted, stg_incident_place_candidates,
                 map_incident_place, fct_incident_places,
                 curation_incident_overrides>>
  /\ WarehouseUnchanged

\* python scripts/import_overrides_from_csv.py --csv csv
ImportOverrides(csv) ==
  /\ curation_incident_overrides' =
       import_overrides_from_csv(curation_incident_overrides, csv)
  /\ last' = [op |-> "import", run_id |-> ""]
  /\ UNCHANGED <<stg_incidents_extracted, stg_incident_place_candidates,
                 map_incident_place, fct_incident_places, fct_incidents_curated>>
  /\ WarehouseUnchanged

NextWarehouse ==
  \/ \E run_id \in WarehouseRuns : GenerateCandidates(run_id)
  \/ \E run_id \in WarehouseRuns : ResolveIncidents(run_id)
  \/ \E run_id \in WarehouseRuns : BuildIncidentPlaces(run_id)
  \/ \E run_id \in WarehouseRuns : BuildCurated(run_id)
  \/ \E csv \in WarehouseCsvFiles : ImportOverrides(csv)

SpecWarehouse == InitWarehouse /\ [][NextWarehouse]_vars

CuratedOf(table, run_id) == {f \in table : f.ingest_run_id = run_id}
\* the step taken is a per-run builder invoked for run_id
Builder(run_id) ==
  /\ last'.op \in {"candidates", "resolve", "fct", "curated"}
  /\ last'.run_id = run_id

\* C28: a per-run builder invoked for a run leaves the rows of every other run in
\* the candidate table, the incident-place map, the incident-place facts and the
\* curated facts as they were
C28_BuildersTouchOwnRunOnly ==
  [][\A run_id \in WarehouseRuns :
       Builder(run_id) =>
         \A other \in WarehouseRuns \ {run_id} :
           /\ of_run(stg_incident_place_candidates', other)
                = of_run(stg_incident_place_candidates, other)
           /\ of_run(map_incident_place', other) = of_run(map_incident_place, other)
           /\ of_run(fct_incident_places', other) = of_run(fct_incident_places, other)
           /\ CuratedOf(fct_incidents_curated', other)
                = CuratedOf(fct_incidents_curated, other)]_vars

\* a builder ran for a run while all four tables held rows of both runs
C28_Witness ==
  /\ last.op \in {"candidates", "resolve", "fct", "curated"}
  /\ \A run_id \in WarehouseRuns :
       /\ of_run(stg_incident_place_candidates, run_id) # EmptyBag
       /\ of_run(map_incident_place, run_id) # EmptyBag
       /\ of_run(fct_incident_places, run_id) # EmptyBag
       /\ CuratedOf(fct_incidents_curated, run_id) # {}

(***************************************************************************)
(* Specification SpecIndex: build_place_index over dim_places_pe as        *)
(* reset_dim_places_pe.py creates it (no key constraint) and               *)
(* load_gazetteer_pe.py fills it from a gazetteer CSV                      *)
(***************************************************************************)
sIcaSlash == <<"P","i","s","c","o"," ","/"," ","I","c","a"," ","|"," ","S","u","r">>
\* the rows a gazetteer CSV can hold: the three of dim_places_pe, a row that repeats
\* a place_id under another name, a row without any name, a row whose name is
\* blank, and a row named with two separators
CsvRows ==
  dim_places_pe \cup
  { [place_id |-> <<"0","1","0","3">>, display_name |-> sIlo, search_name |-> lower(sIlo),
     adm1_name |-> sIlo, adm2_name |-> None, adm3_name |-> None,
     lat |-> Num(-17), lon |-> Num(-71)],
    [place_id |-> <<"0","3","0","1">>, display_name |-> None, search_name |-> None,
     adm1_name |-> sIca, adm2_name |-> None, adm3_name |-> None,
     lat |-> Num(-14), lon |-> Num(-75)],
    [place_id |-> <<"0","3","0","2">>, display_name |-> <<" ">>, search_name |-> None,
     adm1_name |-> sIca, adm2_name |-> None, adm3_name |-> None,
     lat |-> Num(-14), lon |-> Num(-75)],
    [place_id |-> <<"0","3","0","3">>, display_name |-> sIcaSlash, search_name |-> None,
     adm1_name |-> sIca, adm2_name |-> sIca, adm3_name |-> None,
     lat |-> Num(-13), lon |-> Num(-76)] }
\* most rows in a CSV
MaxCsvRows == 3
CsvTables ==
  UNION {Orderings(rows) : rows \in {t \in SUBSET CsvRows : Cardinality(t) <= MaxCsvRows}}

\* reset_dim_places_pe.py created the table and load_gazetteer_pe.py loaded a CSV:
\* DELETE FROM dim_places_pe, then INSERT ... SELECT * FROM read_csv_auto(csv)
InitIndex ==
  /\ InitIdleService
  /\ InitIdleCache
  /\ InitIdlePlaces
  /\ InitIdleScore
  /\ InitIdleCuration
  /\ InitIdleQuality
  /\ InitIdleRate
  /\ InitIdleSingleton
  /\ running = NotRunning
  /\ dim_rows \in CsvTables
  /\ place_index = NotBuilt

IndexUnchanged ==
  UNCHANGED <<geoVars, cacheVars, placeVars, scoreVars, curationVars, qualityVars,
              rateVars, singletonVars, running>>

\* build_place_index(con), as run_location_candidates calls it
BuildPlaceIndex ==
  /\ place_index' = [built |-> TRUE, raised |-> FALSE,
                     index |-> build_place_index(dim_rows)]
  /\ UNCHANGED dim_rows
  /\ IndexUnchanged

NextIndex == BuildPlaceIndex

SpecIndex == InitIndex /\ [][NextIndex]_vars

\* the index was built
BuiltOverTable == place_index.built /\ ~place_index.raised
TableRows == {dim_rows[i] : i \in 1..Len(dim_rows)}
Indexed(row) == \E i \in 1..Len(place_index.index) : place_index.index[i].pr = PlaceRow(row)
NoUsableName(row) == place_name(row) = None \/ normalize(place_name(row)) = <<>>

\* C26: build_place_index over a table that holds two rows with one place_id fails
\* instead of producing an index, and a row with no usable name is not indexed
C26_DuplicateIdsFailFast ==
  place_index.built =>
    /\ (\E r, o \in TableRows : r # o /\ r.place_id = o.place_id) => place_index.raised
    /\ \A r \in TableRows :
         (NoUsableName(r) /\ ~\E o \in TableRows : o # r /\ PlaceRow(o) = PlaceRow(r))
           => ~Indexed(r)

\* the text before the first occurrence of a separator
Before(text, sep) ==
  IF find(text, sep) = 0 THEN text ELSE SubSeq(text, 1, find(text, sep) - 1)
\* the keys a place is to be found under
ExpectedKeys(row) ==
  IF NoUsableName(row) THEN {}
  ELSE ({normalize(place_name(row)), normalize(Before(strip(place_name(row)), <<",">>))}
        \cup {normalize(Before(strip(place_name(row)), Separators[k])) :
                k \in {j \in 1..Len(Separators) :
                         find(strip(place_name(row)), Separators[j]) # 0}})
       \ {<<>>}
\* the normalized texts looked up: every key of a CSV row, and texts that are none
ProbeKeys ==
  UNION {ExpectedKeys(row) : row \in CsvRows}
    \cup {<<"b">>, <<"i","l","o"," ","i","l","o">>, <<"s","u","r">>, <<"i","c","á">>}
Found(key) ==
  {index_get(place_index.index, key)[i] :
     i \in 1..Len(index_get(place_index.index, key))}

InitRerun ==
  /\ InitIdleGeo
  /\ AZURE_MAPS_KEY = FALSE
  /\ azure_geocoder = NoGeocoder
  /\ resolved = NotResolved
  /\ InitIdleCache
  /\ cli = [top_k |-> 10, use_body |-> FALSE]
  /\ stg_incidents_extracted =
       update_staging({ staging_row("r1", "a", sGam, sAteIcaIca, None),
                        staging_row("r1", "b", sAte, None, None),
                        staging_row(PriorRun, "a", sIcaDisplay, None, None) },
                      PriorMap, PriorRun)
  /\ stg_incident_place_candidates = PriorCandidates
  /\ map_incident_place = PriorMap
  /\ fct_incident_places = PriorFct
  /\ last = NoStep
  /\ done = {}
  /\ InitIdleOther

\* python scripts/run_location_candidates.py --run-id run_id [--use-body]
RunLocationCandidatesWith(use_body) ==
  /\ cli' = [top_k |-> cli.top_k, use_body |-> use_body]
  /\ \E run_id \in RunIds :
       \E place_rows \in Orderings({row \in dim_places_pe : place_name(row) # None}) :
         \E inc_rows \in Orderings({e \in stg_incidents_extracted :
                                      e.ingest_run_id = run_id}) :
           /\ stg_incident_place_candidates' =
                run_location_candidates(stg_incident_place_candidates, run_id,
                                        cli.top_k, use_body, PlaceIndexes[place_rows],
                                        inc_rows)
           /\ last' = [op |-> "candidates", run_id |-> run_id,
                       rerun |-> <<"candidates", run_id>> \in done,
                       before |-> of_run(stg_incident_place_candidates, run_id)]
           /\ done' = done \cup {<<"candidates", run_id>>}
  /\ UNCHANGED <<geoVars, cacheVars, otherVars, stg_incidents_extracted,
                 map_incident_place, fct_incident_places>>

NextRerun ==
  \/ \E use_body \in BOOLEAN : RunLocationCandidatesWith(use_body)
  \/ RunGeoResolveIncidents
  \/ BuildFctIncidentPlaces

SpecRerun == InitRerun /\ [][NextRerun]_vars

NoPlace(e) ==
  /\ e.place_id = None
  /\ e.adm1 = None
  /\ e.adm2 = None
  /\ e.adm3 = None
  /\ e.lat = FNone
  /\ e.lon = FNone

\* C29: after candidates were generated and run_geo_resolve_incidents ran for a run,
\* an incident of the run with a primary candidate holds the place of that candidate
\* and an incident with no candidate holds no place
C29_PlaceReflectsCurrentCandidates ==
  (last.op = "resolve" /\ <<"candidates", last.run_id>> \in done) =>
    \A e \in LastIncidents :
      IF RowsOf(stg_incident_place_candidates, e) = {}
      THEN NoPlace(e)
      ELSE \E m \in primaries(map_incident_place) \cap RowsOf(map_incident_place, e) :
             /\ e.place_id = m.place_id
             /\ e.adm1 = m.adm1
             /\ e.adm2 = m.adm2
             /\ e.adm3 = m.adm3
             /\ e.lat = m.lat
             /\ e.lon = m.lon

(***************************************************************************)
(* Level and coordinate of a result, under Spec                            *)
(***************************************************************************)
\* a result, or an output row, carries no coordinate at all
NoCoordinate(r) == IsNull(r.lat) /\ IsNull(r.lon)

\* C30: in every result of geocode_incident and in every row of the frame
\* geocode_batch returns, the level is none exactly when lat and lon are both null
C30_LevelNoneIffNoCoordinate ==
  /\ HasReturned => (resolved.ret.nivel_geo = "None" <=> NoCoordinate(resolved.ret))
  /\ \A i \in 1..Len(resolved.rows) :
        resolved.rows[i].nivel_geo = "None" <=> NoCoordinate(resolved.rows[i])

\* C30, the part on results alone: geocode_incident returns no coordinate with the
\* level none
C30_NoneResultHasNoCoordinate ==
  (HasReturned /\ resolved.ret.nivel_geo = "None") => NoCoordinate(resolved.ret)

====
